---- MODULE Spec2Model ----
(***************************************************************************)
(* Terrain mesh and contour pipeline of abovejs: TerrainMesh (elevation    *)
(* sampling, vertex colouring, triangle filtering, contour generation),    *)
(* OverlayLayers (contour display) and the two orchestrators that drive    *)
(* them, TerrainViewer (library API) and main.js (viewer page).            *)
(*                                                                         *)
(* Numbers.  Elevations, reference elevations, contour intervals and       *)
(* thresholds are integers counted in half metres, so that Math.round has  *)
(* something to round.  depthRange is kept in whole metres as the code     *)
(* keeps it.  A bilinear sample is kept exactly, as a numerator over the   *)
(* denominator ud * vd of the lookup position.                             *)
(*                                                                         *)
(* Scheduling.  One step of the model is one macrotask of the JavaScript   *)
(* event loop run to completion, promise continuations (microtasks)        *)
(* included.  setTimeout(0) callbacks are served first in, first out.      *)
(***************************************************************************)
EXTENDS Integers, Sequences, FiniteSets, TLC

(***************************************************************************)
(* Encodings of JavaScript values                                          *)
(***************************************************************************)

\* Number.NaN: the value _getElevationAt and _sampleElevation return for NoData
NaN == -999999

\* noDataValue === null (no GDAL_NODATA in the file)
Null == -888888

\* value >= 1e5 is NoData; 1e5 m in half metres
NO_DATA_THRESHOLD == 200000


Min2(a, b) == IF a < b THEN a ELSE b

Max2(a, b) == IF a > b THEN a ELSE b

\* Math.round of the half-metre count k, in whole metres: floor(k/2 + 0.5)
RoundHalf(k) == (k + 1) \div 2

RECURSIVE Gcd(_, _)
Gcd(a, b) == IF b = 0 THEN a ELSE Gcd(b, a % b)

(***************************************************************************)
(* Elevation sampler                                                       *)
(***************************************************************************)

\* TerrainMesh._isNoData
IsNoData(value, noData) ==
    \/ value = NaN
    \/ value >= NO_DATA_THRESHOLD
    \/ (noData # Null /\ value = noData)

\* TerrainMesh._getElevationAt on raster e = [w, h, d], d row-major from 1
GetElevationAt(e, noData, x, y) ==
    IF IsNoData(e.d[y * e.w + x + 1], noData) THEN NaN ELSE e.d[y * e.w + x + 1]

\* the four raster cells under u = un/ud, v = vn/vd and the two fractions
Neighbourhood(e, un, ud, vn, vd) ==
    [x0 |-> (un * (e.w - 1)) \div ud,
     y0 |-> (vn * (e.h - 1)) \div vd,
     x1 |-> Min2((un * (e.w - 1)) \div ud + 1, e.w - 1),
     y1 |-> Min2((vn * (e.h - 1)) \div vd + 1, e.h - 1),
     fx |-> (un * (e.w - 1)) % ud,
     fy |-> (vn * (e.h - 1)) % vd]

\* the NoData test of _hasNearbyNoData on the four cells nb
AnyNoData(e, noData, nb) ==
    \/ IsNoData(e.d[nb.y0 * e.w + nb.x0 + 1], noData)
    \/ IsNoData(e.d[nb.y0 * e.w + nb.x1 + 1], noData)
    \/ IsNoData(e.d[nb.y1 * e.w + nb.x0 + 1], noData)
    \/ IsNoData(e.d[nb.y1 * e.w + nb.x1 + 1], noData)

\* TerrainMesh._hasNearbyNoData
HasNearbyNoData(e, noData, un, ud, vn, vd) ==
    AnyNoData(e, noData, Neighbourhood(e, un, ud, vn, vd))

\* the first corner's value alone, times ud * vd: no look at the other three
BilinearNearest(v00, v10, v01, v11, fx, fy, ud, vd) ==
    IF v00 = NaN THEN NaN ELSE v00 * ud * vd

\* the bilinear blend of the four corner values, times ud * vd, or NaN
Bilinear(v00, v10, v01, v11, fx, fy, ud, vd) ==
    IF v00 = NaN \/ v10 = NaN \/ v01 = NaN \/ v11 = NaN
    THEN NaN
    ELSE (v00 * (ud - fx) + v10 * fx) * (vd - fy)
         + (v01 * (ud - fx) + v11 * fx) * fy

\* the sample over the four cells nb
SampleOver(e, noData, nb, ud, vd) ==
    Bilinear(GetElevationAt(e, noData, nb.x0, nb.y0),
             GetElevationAt(e, noData, nb.x1, nb.y0),
             GetElevationAt(e, noData, nb.x0, nb.y1),
             GetElevationAt(e, noData, nb.x1, nb.y1),
             nb.fx, nb.fy, ud, vd)

\* TerrainMesh._sampleElevation: the bilinear sample times ud * vd, or NaN
SampleElevation(e, noData, un, ud, vn, vd) ==
    SampleOver(e, noData, Neighbourhood(e, un, ud, vn, vd), ud, vd)

\* analyzeElevation: the smallest valid sample (minElevation)
AnalyzeMin(e, noData) ==
    LET valid == {e.d[i] : i \in {j \in 1..Len(e.d) : ~IsNoData(e.d[j], noData)}}
    IN  CHOOSE m \in valid : \A o \in valid : m <= o

\* analyzeElevation: the largest valid sample (referenceElevation)
AnalyzeMax(e, noData) ==
    LET valid == {e.d[i] : i \in {j \in 1..Len(e.d) : ~IsNoData(e.d[j], noData)}}
    IN  CHOOSE m \in valid : \A o \in valid : m >= o

\* depthRange without the lower limit of 1 on its upper bound
DepthRangeUnclamped(ref, minElev) == <<0, RoundHalf(ref - minElev)>>

\* depthRange = [0, max(1, round(ref - min))], in metres
DepthRangeFor(ref, minElev) == <<0, Max2(1, RoundHalf(ref - minElev))>>

(***************************************************************************)
(* Mesh geometry: THREE.PlaneGeometry(modelWidth, modelHeight, gw-1, gh-1) *)
(* Vertices are numbered from 0, row by row; row 0 is the back (north).    *)
(***************************************************************************)

\* uvs.count
VertexCount(gw, gh) == gw * gh

\* uv.x of vertex i, as <<numerator, denominator>>
UvX(i, gw, gh) == <<i % gw, gw - 1>>

\* uv.y of vertex i (PlaneGeometry stores 1 - iy / gridY)
UvY(i, gw, gh) == <<(gh - 1) - (i \div gw), gh - 1>>

\* 1.0 - uv.y, the V flip colouring and filtering apply
FlipV(v) == <<v[2] - v[1], v[2]>>

\* geometry.index as PlaneGeometry builds it: quads row by row, each (a,b,d),(b,c,d)
PlaneIndex(gw, gh) ==
    [k \in 1..(6 * (gw - 1) * (gh - 1)) |->
        LET q  == (k - 1) \div 6
            r  == (k - 1) % 6
            ix == q % (gw - 1)
            iy == q \div (gw - 1)
            a  == ix + gw * iy
            b  == ix + gw * (iy + 1)
            c  == (ix + 1) + gw * (iy + 1)
            d  == (ix + 1) + gw * iy
        IN  CASE r = 0 -> a [] r = 1 -> b [] r = 2 -> d
              [] r = 3 -> b [] r = 4 -> c [] r = 5 -> d]

(***************************************************************************)
(* Grid planning (_calculateGridDimensions).  The valid fraction is the    *)
(* fraction <<fn, fd>>; with h*h = targetQuads / aspectRatio               *)
(*   h * h = targetPolys * fd * eh / (2 * fn * ew)                         *)
(*   w * w = h * h * ew * ew / (eh * eh)                                   *)
(* A zero denominator with a positive numerator is Infinity, 0 / 0 is NaN. *)
(***************************************************************************)

\* Math.round(Math.sqrt(n / d)) for n, d >= 0, or cap if that is larger
\* (Infinity, for d = 0 < n, included): Math.round(x) >= k > 0 exactly
\* when x >= k - 1/2, that is when (2k - 1)^2 * d <= 4 * n
RoundSqrt(n, d, cap) ==
    CHOOSE k \in 0..cap :
        /\ k = 0 \/ (2 * k - 1) * (2 * k - 1) * d <= 4 * n
        /\ k = cap \/ (2 * k + 1) * (2 * k + 1) * d > 4 * n

\* the planned dimensions without the lower clamp
GridDimensionsUnclamped(ew, eh, targetPolys, fn, fd) ==
    IF targetPolys = 0 /\ fn = 0
    THEN [gridWidth |-> NaN, gridHeight |-> NaN]
    ELSE [gridWidth |->
              Min2(RoundSqrt(targetPolys * fd * eh * ew * ew, 2 * fn * ew * eh * eh, ew) + 1,
                   ew),
          gridHeight |->
              Min2(RoundSqrt(targetPolys * fd * eh, 2 * fn * ew, eh) + 1, eh)]

\* TerrainMesh._calculateGridDimensions(validFraction) on a raster of
\* ew x eh samples with config.targetPolygons = targetPolys; Math.min and
\* Math.max of NaN are NaN
CalculateGridDimensions(ew, eh, targetPolys, fn, fd) ==
    IF targetPolys = 0 /\ fn = 0
    THEN [gridWidth |-> NaN, gridHeight |-> NaN]
    ELSE [gridWidth |->
              Max2(Min2(RoundSqrt(targetPolys * fd * eh * ew * ew,
                                  2 * fn * ew * eh * eh, ew) + 1, ew), 2),
          gridHeight |->
              Max2(Min2(RoundSqrt(targetPolys * fd * eh, 2 * fn * ew, eh) + 1, eh), 2)]

(***************************************************************************)
(* Vertex colouring                                                        *)
(***************************************************************************)

\* the flat neutral gray (0.5, 0.5, 0.5)
Gray == [gray |-> TRUE, n |-> 0, d |-> 1]

\* TerrainMesh._getColorForDepth.  depth = depthNum / den half metres; the
\* colour is given by its fractional index n / d into the 256-entry colormap.
\* the colour at colormap index n / d, in lowest terms
ColorAt(n, d, g) == [gray |-> FALSE, n |-> n \div g, d |-> d \div g]

\* the index (1 - clamp(num / range, 0, 1)) * 255
InvertedIndex(num, range) == (range - Max2(0, Min2(range, num))) * 255

GetColorForDepth(depthNum, den, minDepth, maxDepth) ==
    ColorAt(InvertedIndex(depthNum - 2 * den * minDepth, 2 * den * (maxDepth - minDepth)),
            2 * den * (maxDepth - minDepth),
            Gcd(InvertedIndex(depthNum - 2 * den * minDepth,
                              2 * den * (maxDepth - minDepth)),
                2 * den * (maxDepth - minDepth)))

\* the colour of a vertex without the test for a sample that is not finite
ColorOfUnchecked(elevation, ref, den, minDepth, maxDepth) ==
    IF elevation >= ref * den THEN Gray
    ELSE GetColorForDepth(ref * den - elevation, den, minDepth, maxDepth)

\* the colour of a vertex whose sample is elevation / den half metres
ColorOf(elevation, ref, den, minDepth, maxDepth) ==
    IF elevation = NaN THEN Gray
    ELSE IF elevation >= ref * den THEN Gray
    ELSE GetColorForDepth(ref * den - elevation, den, minDepth, maxDepth)

\* the body of the per-vertex callback of _computeVertexColors(Async)
VertexColor(e, noData, gw, gh, i, ref, minDepth, maxDepth) ==
    ColorOf(SampleElevation(e, noData, UvX(i, gw, gh)[1], UvX(i, gw, gh)[2],
                            FlipV(UvY(i, gw, gh))[1], FlipV(UvY(i, gw, gh))[2]),
            ref, UvX(i, gw, gh)[2] * UvY(i, gw, gh)[2], minDepth, maxDepth)

\* TerrainMesh._computeVertexColors: the whole buffer in one synchronous pass
ComputeVertexColors(e, noData, gw, gh, ref, depthRange) ==
    [i \in 0..(VertexCount(gw, gh) - 1) |->
        VertexColor(e, noData, gw, gh, i, ref, depthRange[1], depthRange[2])]

(***************************************************************************)
(* Triangle filtering                                                      *)
(***************************************************************************)

\* the pre-pass by the elevation alone
ClassOfByElevation(nearbyNoData, elevation, refScaled) ==
    IF elevation < refScaled THEN "below" ELSE "above"

\* the pre-pass with a vertex at the reference counted as below it
ClassOfAtOrBelow(nearbyNoData, elevation, refScaled) ==
    IF nearbyNoData THEN "nodata"
    ELSE IF elevation = NaN THEN "nodata"
    ELSE IF elevation <= refScaled THEN "below"
    ELSE "above"

\* the pre-pass of _filterAboveWaterTrianglesAsync for one vertex:
\* "nodata" (isNoData), "below" (isBelowRef) or "above" (neither)
ClassOf(nearbyNoData, elevation, refScaled) ==
    IF nearbyNoData THEN "nodata"
    ELSE IF elevation = NaN THEN "nodata"
    ELSE IF elevation < refScaled THEN "below"
    ELSE "above"

ClassifyVertex(e, noData, gw, gh, i, ref) ==
    ClassOf(HasNearbyNoData(e, noData, UvX(i, gw, gh)[1], UvX(i, gw, gh)[2],
                            FlipV(UvY(i, gw, gh))[1], FlipV(UvY(i, gw, gh))[2]),
            SampleElevation(e, noData, UvX(i, gw, gh)[1], UvX(i, gw, gh)[2],
                            FlipV(UvY(i, gw, gh))[1], FlipV(UvY(i, gw, gh))[2]),
            ref * (UvX(i, gw, gh)[2] * UvY(i, gw, gh)[2]))

\* the pre-pass over all vertices
ClassifyVertices(e, noData, gw, gh, ref) ==
    [i \in 0..(VertexCount(gw, gh) - 1) |-> ClassifyVertex(e, noData, gw, gh, i, ref)]

\* the per-triangle callback: is triangle t (from 0) of indices kept?
KeepClasses(c0, c1, c2) ==
    IF c0 = "nodata" \/ c1 = "nodata" \/ c2 = "nodata"
    THEN FALSE
    ELSE c0 = "below" \/ c1 = "below" \/ c2 = "below"

KeepTriangle(indices, class, t) ==
    KeepClasses(class[indices[t * 3 + 1]], class[indices[t * 3 + 2]],
                class[indices[t * 3 + 3]])

\* the callback reading triangle t at indices[t] instead of indices[t * 3]
RECURSIVE FilterChunkUnscaled(_, _, _, _, _)
FilterChunkUnscaled(indices, class, newIndices, from, to) ==
    IF from >= to THEN newIndices
    ELSE FilterChunkUnscaled(indices, class,
            IF KeepClasses(class[indices[from + 1]], class[indices[from + 2]],
                           class[indices[from + 3]])
            THEN newIndices \o <<indices[from + 1], indices[from + 2],
                                 indices[from + 3]>>
            ELSE newIndices,
            from + 1, to)

\* newIndices after the callback ran for triangles from..to-1
RECURSIVE FilterChunk(_, _, _, _, _)
FilterChunk(indices, class, newIndices, from, to) ==
    IF from >= to THEN newIndices
    ELSE FilterChunk(indices, class,
            IF KeepTriangle(indices, class, from)
            THEN newIndices \o <<indices[from * 3 + 1], indices[from * 3 + 2],
                                 indices[from * 3 + 3]>>
            ELSE newIndices,
            from + 1, to)

\* the indices pushed for triangles from..to-1, a long range taken in two
\* halves one after the other
RECURSIVE FilterRange(_, _, _, _)
FilterRange(indices, class, from, to) ==
    IF to - from <= 16 THEN FilterChunk(indices, class, <<>>, from, to)
    ELSE FilterRange(indices, class, from, (from + to) \div 2)
         \o FilterRange(indices, class, (from + to) \div 2, to)

\* a whole filtering pass without interruption
FilterAboveWaterTriangles(e, noData, gw, gh, indices, ref) ==
    FilterRange(indices, ClassifyVertices(e, noData, gw, gh, ref),
                0, Len(indices) \div 3)

(***************************************************************************)
(* CPU-fallback displacement                                               *)
(***************************************************************************)

\* the Y that _updateVerticesCPU stores for vertex i, times
\* 2 * realWorldScale * (gw-1) * (gh-1); the lookup uses uv as stored
HeightOf(elevation, refScaled, zExag) ==
    IF elevation = NaN THEN 0 ELSE (elevation - refScaled) * zExag

VertexHeightCPU(e, noData, gw, gh, i, ref, zExag) ==
    HeightOf(SampleElevation(e, noData, UvX(i, gw, gh)[1], UvX(i, gw, gh)[2],
                             UvY(i, gw, gh)[1], UvY(i, gw, gh)[2]),
             ref * (UvX(i, gw, gh)[2] * UvY(i, gw, gh)[2]), zExag)

(***************************************************************************)
(* Contour generation: thresholds, marching squares                        *)
(***************************************************************************)

Abs(a) == IF a < 0 THEN -a ELSE a

\* the fraction n / d in lowest terms with a positive denominator
Reduced(n, d, g) ==
    IF d < 0 THEN <<(-n) \div g, (-d) \div g>> ELSE <<n \div g, d \div g>>

Frac(n, d) == Reduced(n, d, Gcd(Abs(n), Abs(d)))

\* a / b + c, for a fraction <<a, b>> and an integer c
FracPlus(f, c) == <<f[1] + c * f[2], f[2]>>

\* the threshold loop keeping only the thresholds above minElev
RECURSIVE ThresholdsAbove(_, _, _, _, _)
ThresholdsAbove(depth, maxContourDepth, ref, minElev, interval) ==
    IF depth > 2 * maxContourDepth THEN <<>>
    ELSE (IF ref - depth > minElev THEN <<ref - depth>> ELSE <<>>)
         \o ThresholdsAbove(depth + interval, maxContourDepth, ref, minElev, interval)

\* the threshold loop of generateContours: depth runs from interval to
\* maxContourDepth = round(ref - minElev) metres in steps of interval
RECURSIVE ThresholdsFrom(_, _, _, _, _)
ThresholdsFrom(depth, maxContourDepth, ref, minElev, interval) ==
    IF depth > 2 * maxContourDepth THEN <<>>
    ELSE (IF ref - depth >= minElev THEN <<ref - depth>> ELSE <<>>)
         \o ThresholdsFrom(depth + interval, maxContourDepth, ref, minElev, interval)

\* thresholds of generateContours(referenceElevation, minElevation, interval)
BuildContourThresholds(ref, minElev, interval) ==
    ThresholdsFrom(interval, RoundHalf(ref - minElev), ref, minElev, interval)

\* the sampling grid of generateContours: grid[gy * gw + gx], each sample
\* times (gw-1) * (gh-1), or NaN
BuildContourGrid(e, noData, gw, gh) ==
    [k \in 0..(gw * gh - 1) |->
        SampleElevation(e, noData, k % gw, gw - 1, k \div gw, gh - 1)]

\* MS_EDGE_TABLE, indexed by caseBits + 1; the saddles 5 and 10 are empty here
MS_EDGE_TABLE ==
    << <<>>,            << <<3, 2>> >>,   << <<2, 1>> >>,   << <<3, 1>> >>,
       << <<0, 1>> >>,  <<>>,             << <<0, 2>> >>,   << <<3, 0>> >>,
       << <<0, 3>> >>,  << <<0, 2>> >>,   <<>>,             << <<0, 1>> >>,
       << <<3, 1>> >>,  << <<2, 1>> >>,   << <<3, 2>> >>,   <<>> >>

\* caseBits of a cell with corners tl, tr, br, bl against threshold th
CaseBits(tl, tr, br, bl, th) ==
    (IF tl >= th THEN 8 ELSE 0) + (IF tr >= th THEN 4 ELSE 0)
    + (IF br >= th THEN 2 ELSE 0) + (IF bl >= th THEN 1 ELSE 0)

\* the edge pairs of a saddle or table case
CaseEdges(caseBits, centerGe) ==
    IF caseBits = 0 \/ caseBits = 15 THEN <<>>
    ELSE IF caseBits = 5
         THEN (IF centerGe THEN << <<3, 0>>, <<2, 1>> >>
                           ELSE << <<0, 1>>, <<3, 2>> >>)
    ELSE IF caseBits = 10
         THEN (IF centerGe THEN << <<0, 1>>, <<3, 2>> >>
                           ELSE << <<3, 0>>, <<2, 1>> >>)
    ELSE MS_EDGE_TABLE[caseBits + 1]

\* the edge pairs of one cell; th and the corners carry the same denominator
CellEdges(tl, tr, br, bl, th) ==
    IF tl = NaN \/ tr = NaN \/ br = NaN \/ bl = NaN THEN <<>>
    ELSE CaseEdges(CaseBits(tl, tr, br, bl, th), (tl + tr + br + bl) >= 4 * th)

\* the crossing at fraction t of an edge of the cell at gx, gy
EdgePoint(edge, t, gx, gy) ==
    CASE edge = 0 -> [x |-> FracPlus(t, gx), z |-> <<gy, 1>>, t |-> t]
      [] edge = 1 -> [x |-> <<gx + 1, 1>>, z |-> FracPlus(t, gy), t |-> t]
      [] edge = 2 -> [x |-> FracPlus(t, gx), z |-> <<gy + 1, 1>>, t |-> t]
      [] edge = 3 -> [x |-> <<gx, 1>>, z |-> FracPlus(t, gy), t |-> t]

\* TerrainMesh._interpolateEdge in cell units (x0 = gx, x1 = gx + 1, z0 = gy,
\* z1 = gy + 1): the crossing [x, z] and the fraction t along the edge
InterpolateEdge(edge, th, tl, tr, br, bl, gx, gy) ==
    EdgePoint(edge,
              Frac(CASE edge = 0 -> th - tl [] edge = 1 -> th - tr
                     [] edge = 2 -> th - bl [] edge = 3 -> th - tl,
                   CASE edge = 0 -> tr - tl [] edge = 1 -> br - tr
                     [] edge = 2 -> br - bl [] edge = 3 -> bl - tl),
              gx, gy)

\* a crossing as the point [x, z] it is stored as
Point(c) == [x |-> c.x, z |-> c.z]

\* the segments pushed for the edge pairs of one cell.
\* A segment is [y, oy, p0, p1]: y is contourY = (threshold - reference) *
\* heightScale, in half metres / realWorldScale; oy is the multiple of
\* ny * heightOffset added to y (x and z always carry their normal offset)
EdgeSegments(edges, th, tl, tr, br, bl, contourY, gx, gy) ==
    [k \in 1..Len(edges) |->
        [y |-> contourY, oy |-> <<1, 1>>,
         p0 |-> Point(InterpolateEdge(edges[k][1], th, tl, tr, br, bl, gx, gy)),
         p1 |-> Point(InterpolateEdge(edges[k][2], th, tl, tr, br, bl, gx, gy))]]

\* the segments of the cell with corners tl, tr, br, bl
CornerSegments(tl, tr, br, bl, th, contourY, gx, gy) ==
    EdgeSegments(CellEdges(tl, tr, br, bl, th), th, tl, tr, br, bl, contourY, gx, gy)

\* the segments one cell pushes to chunkData for threshold th (half metres)
CellSegments(grid, gw, gh, th, contourY, gx, gy) ==
    CornerSegments(grid[gy * gw + gx], grid[gy * gw + gx + 1],
                   grid[(gy + 1) * gw + gx + 1], grid[(gy + 1) * gw + gx],
                   th * ((gw - 1) * (gh - 1)), contourY, gx, gy)

\* the inner loop of one threshold: the cells gx.. of row gy
RECURSIVE RowSegmentsFrom(_, _, _, _, _, _, _)
RowSegmentsFrom(grid, gw, gh, th, contourY, gx, gy) ==
    IF gx >= gw - 1 THEN <<>>
    ELSE CellSegments(grid, gw, gh, th, contourY, gx, gy)
         \o RowSegmentsFrom(grid, gw, gh, th, contourY, gx + 1, gy)

\* chunkData of one threshold: the rows gy.. of cells, one after the other
RECURSIVE ThresholdSegmentsFrom(_, _, _, _, _, _)
ThresholdSegmentsFrom(grid, gw, gh, th, contourY, gy) ==
    IF gy >= gh - 1 THEN <<>>
    ELSE RowSegmentsFrom(grid, gw, gh, th, contourY, 0, gy)
         \o ThresholdSegmentsFrom(grid, gw, gh, th, contourY, gy + 1)

ThresholdSegments(grid, gw, gh, th, contourY) ==
    ThresholdSegmentsFrom(grid, gw, gh, th, contourY, 0)

(***************************************************************************)
(* Contour generation: chaining and Douglas-Peucker simplification.        *)
(* Lengths are in grid cells (the cells are taken square); a point is      *)
(* [x, z] with exact fractions.  Two endpoints have the same key exactly   *)
(* when they are the same crossing position.                               *)
(***************************************************************************)

RSub(a, b) == Frac(a[1] * b[2] - b[1] * a[2], a[2] * b[2])

RAdd(a, b) == Frac(a[1] * b[2] + b[1] * a[2], a[2] * b[2])

RMul(a, b) == Frac(a[1] * b[1], a[2] * b[2])

RDiv(a, b) == Frac(a[1] * b[2], a[2] * b[1])

RGt(a, b) == a[1] * b[2] > b[1] * a[2]

\* key(x, z) of an endpoint
Key(p) == <<p.x, p.z>>

\* the endpoint of segment i (from 0) at end 0 (a) or 1 (b), as a point [x, z]
EndPoint(data, i, end) ==
    IF end = 0 THEN data[i + 1].p0 ELSE data[i + 1].p1

\* adj.get(k) without the used segments: the {seg, end} entries as seg * 2 + end
FreeNeighbors(data, used, k) ==
    {n \in 0..(2 * Len(data) - 1) :
        Key(EndPoint(data, n \div 2, n % 2)) = k /\ (n \div 2) \notin used}

\* the first entry, in insertion order
First(free) == CHOOSE m \in free : \A o \in free : m <= o

\* a walk that pushed point next, followed by the walk rest
Pushed(next, rest) == [pts |-> <<next>> \o rest.pts, used |-> rest.used]

\* one of the two walks of _chainAndSimplifySegments: follow unused segments
\* from curKey; returns the points pushed and the segments used
RECURSIVE Walk(_, _, _)
RECURSIVE WalkVia(_, _, _)
Walk(data, used, curKey) ==
    IF FreeNeighbors(data, used, curKey) = {} THEN [pts |-> <<>>, used |-> used]
    ELSE WalkVia(data, used, First(FreeNeighbors(data, used, curKey)))

\* the walk continues over entry n: segment n \div 2, entered at end n % 2
WalkVia(data, used, n) ==
    Pushed(EndPoint(data, n \div 2, 1 - (n % 2)),
           Walk(data, used \cup {n \div 2},
                Key(EndPoint(data, n \div 2, 1 - (n % 2)))))

Reverse(s) == [k \in 1..Len(s) |-> s[Len(s) + 1 - k]]

\* distance squared from the three quantities of the projection
DistSqFrom(lineLenSq, pSq, dot) ==
    IF lineLenSq[1] = 0 THEN pSq
    ELSE RSub(pSq, RDiv(RMul(dot, dot), lineLenSq))

\* distance squared from the offsets of last and p against first
DistSqOf(dx, dz, px, pz) ==
    DistSqFrom(RAdd(RMul(dx, dx), RMul(dz, dz)),
               RAdd(RMul(px, px), RMul(pz, pz)),
               RAdd(RMul(px, dx), RMul(pz, dz)))

\* squared distance of p from the line first-last (from first when the two
\* coincide), as _simplifyPolyline2D measures it
DistSq(p, first, last) ==
    DistSqOf(RSub(last.x, first.x), RSub(last.z, first.z),
             RSub(p.x, first.x), RSub(p.z, first.z))

\* the farther of best and the point i at distance dSq
Farther(best, dSq, i) ==
    IF RGt(dSq, best.maxDistSq) THEN [maxDistSq |-> dSq, maxIdx |-> i] ELSE best

\* the scan for the farthest interior point: [maxDistSq, maxIdx] (index from 0)
RECURSIVE FarthestFrom(_, _, _)
FarthestFrom(points, i, best) ==
    IF i >= Len(points) - 1 THEN best
    ELSE FarthestFrom(points, i + 1,
            Farther(best, DistSq(points[i + 1], points[1], points[Len(points)]), i))

\* two simplified halves joined at the point they share
Joined(left, right) == SubSeq(left, 1, Len(left) - 1) \o right

\* TerrainMesh._simplifyPolyline2D; tolSq is tolerance squared
RECURSIVE SimplifyPolyline2D(_, _)
RECURSIVE SimplifyAround(_, _, _)
SimplifyPolyline2D(points, tolSq) ==
    IF Len(points) <= 2 THEN points
    ELSE SimplifyAround(points, tolSq,
            FarthestFrom(points, 1, [maxDistSq |-> <<0, 1>>, maxIdx |-> 0]))

\* the recursion step once the farthest point far is known
SimplifyAround(points, tolSq, far) ==
    IF RGt(far.maxDistSq, tolSq)
    THEN Joined(SimplifyPolyline2D(SubSeq(points, 1, far.maxIdx + 1), tolSq),
                SimplifyPolyline2D(SubSeq(points, far.maxIdx + 1, Len(points)), tolSq))
    ELSE <<points[1], points[Len(points)]>>

\* the segments emitted for one simplified polyline: Y is contourY, without
\* the normal offset
PolylineSegments(simplified, contourY) ==
    [j \in 1..(Len(simplified) - 1) |->
        [y |-> contourY, oy |-> <<0, 1>>,
         p0 |-> simplified[j], p1 |-> simplified[j + 1]]]

\* TerrainMesh._chainAndSimplifySegments, from segment i on
RECURSIVE ChainFrom(_, _, _, _, _)
RECURSIVE ChainBackward(_, _, _, _, _)
RECURSIVE ChainEmit(_, _, _, _, _, _)
ChainFrom(data, contourY, tolSq, used, i) ==
    IF i >= Len(data) THEN <<>>
    ELSE IF i \in used THEN ChainFrom(data, contourY, tolSq, used, i + 1)
    ELSE ChainBackward(data, contourY, tolSq, i,
            Walk(data, used \cup {i}, Key(EndPoint(data, i, 1))))

\* after the forward walk fwd from b, the backward walk from a
ChainBackward(data, contourY, tolSq, i, fwd) ==
    ChainEmit(data, contourY, tolSq, i, fwd,
              Walk(data, fwd.used, Key(EndPoint(data, i, 0))))

\* the polyline bwd reversed, a, b, fwd is simplified and emitted
ChainEmit(data, contourY, tolSq, i, fwd, bwd) ==
    PolylineSegments(
        SimplifyPolyline2D(Reverse(bwd.pts)
                           \o <<EndPoint(data, i, 0), EndPoint(data, i, 1)>>
                           \o fwd.pts, tolSq),
        contourY)
    \o ChainFrom(data, contourY, tolSq, bwd.used, i + 1)

ChainAndSimplifySegments(data, contourY, tolSq) ==
    ChainFrom(data, contourY, tolSq, {}, 0)

(***************************************************************************)
(* generateContours as a resumable computation.  A run is the record       *)
(* [state, thresholds, ti, grid, gw, gh, ref, heightScale, tolSq,          *)
(* maxVertices, segmentChunks, totalVertices, result]; state is "yield"    *)
(* while it waits in setTimeout(0) after threshold ti and "done" once it   *)
(* has returned result = [segments, vertexCount, aborted].                 *)
(***************************************************************************)

\* the number of floats of a segment list (x, y, z for each of two ends)
FloatCount(segments) == 6 * Len(segments)

\* contourY of threshold ti of run g
ContourY(g) == Frac((g.thresholds[g.ti + 1] - g.ref) * g.heightScale, 1)

\* what is pushed to segmentChunks for chunkData: simplified if asked for
ChunkPushed(chunkData, contourY, tolSq) ==
    IF Len(chunkData) > 0 /\ RGt(tolSq, <<0, 1>>)
    THEN ChainAndSimplifySegments(chunkData, contourY, tolSq)
    ELSE chunkData

\* the segments threshold ti of run g adds to segmentChunks
Emitted(g) ==
    ChunkPushed(ThresholdSegments(g.grid, g.gw, g.gh, g.thresholds[g.ti + 1], ContourY(g)),
            ContourY(g), g.tolSq)

\* the iteration's end without the budget check
BudgetIgnored(g, total) == [g EXCEPT !.state = "yield", !.totalVertices = total]

\* the budget check that ends an iteration, total the new totalVertices
BudgetCheck(g, total) ==
    IF g.maxVertices > 0 /\ total > g.maxVertices
    THEN [g EXCEPT !.state = "done", !.totalVertices = total,
                   !.result = [segments |-> <<>>, vertexCount |-> total,
                               aborted |-> "true"]]
    ELSE [g EXCEPT !.state = "yield", !.totalVertices = total]

\* the chunk cut off inside the threshold, at the segment that exceeds the
\* budget
PushChunkCutOff(g, emitted) ==
    BudgetCheck([g EXCEPT !.segmentChunks = @ \o
                    SubSeq(emitted, 1,
                           IF g.maxVertices > 0
                           THEN Min2(Len(emitted),
                                     Max2(0, g.maxVertices - g.totalVertices) \div 2 + 1)
                           ELSE Len(emitted))],
                g.totalVertices + FloatCount(emitted) \div 3)

\* the iteration's chunk is pushed and counted
PushChunk(g, emitted) ==
    BudgetCheck([g EXCEPT !.segmentChunks = @ \o emitted],
                g.totalVertices + FloatCount(emitted) \div 3)

\* one iteration of the threshold loop, for thresholds[ti] (ti from 0), up to
\* the return or the yield that ends it
ProcessThreshold(g) == PushChunk(g, Emitted(g))

\* the loop is entered, or skipped when there is no threshold
EnterLoop(g) ==
    IF Len(g.thresholds) = 0 THEN [g EXCEPT !.state = "done"]
    ELSE ProcessThreshold(g)

\* generateContours from the call to its first yield or return
GenerateContoursStart(e, noData, gw, gh, zExag, ref, minElev, interval, tolSq, maxVertices) ==
    EnterLoop([state |-> "run",
               thresholds |-> BuildContourThresholds(ref, minElev, interval),
               ti |-> 0,
               grid |-> BuildContourGrid(e, noData, gw, gh), gw |-> gw, gh |-> gh,
               ref |-> ref, heightScale |-> zExag, tolSq |-> tolSq,
               maxVertices |-> maxVertices, segmentChunks |-> <<>>,
               totalVertices |-> 0,
               result |-> [segments |-> <<>>, vertexCount |-> 0,
                           aborted |-> "undefined"]])

\* generateContours resumed after the yield that followed threshold ti
GenerateContoursResume(g) ==
    IF g.ti + 1 < Len(g.thresholds)
    THEN ProcessThreshold([g EXCEPT !.ti = @ + 1])
    ELSE [g EXCEPT !.state = "done", !.ti = @ + 1,
                   !.result = [segments |-> g.segmentChunks,
                               vertexCount |-> g.totalVertices,
                               aborted |-> "false"]]

\* generateContours run to its end without anything in between
RECURSIVE GenerateContoursRun(_)
GenerateContoursRun(g) ==
    IF g.state = "done" THEN g ELSE GenerateContoursRun(GenerateContoursResume(g))

(***************************************************************************)
(* Sizes.  The meshes of the model have a handful of vertices, so the      *)
(* chunk sizes (10000 vertices, 5000 triangles) and the contour vertex     *)
(* budget (2,000,000) are scaled down with them.                           *)
(***************************************************************************)

\* chunkSize of _computeVertexColorsAsync, in vertices
ColorChunkSize == 5

\* chunkSize of _filterAboveWaterTrianglesAsync, in triangles
FilterChunkSize == 3

\* MAX_CONTOUR_VERTICES of the orchestrators
MaxContourVertices == 5

\* the number of direct generateContours calls one behaviour issues
MaxRuns == 1

\* the number of calls one behaviour issues
MaxCalls == 3

\* simplifyTolerance 0.0001 of the orchestrators, squared, in grid cells
SimplifyTolSq == <<1, 100>>

\* DEFAULT_CONFIG of TerrainMesh
DEFAULT_CONFIG == [defaultZExaggeration |-> 4, minZExaggeration |-> 1, maxZExaggeration |-> 10]

(***************************************************************************)
(* processInChunks(total, chunkSize, fn): the items of one chunk run in    *)
(* one task; between two chunks the caller waits in setTimeout(0).         *)
(***************************************************************************)

\* the first item after the chunk that starts at from
ChunkEnd(from, total, chunkSize) == Min2(from + chunkSize, total)

\* the state the caller is in after the chunk that ends before item to
ChunkState(to, total) == IF to < total THEN "yield" ELSE "done"

(***************************************************************************)
(* The two chunked tasks of updateReferenceElevation                       *)
(***************************************************************************)

IdleColors == [state |-> "idle", next |-> 0, buf |-> <<>>, minDepth |-> 0, maxDepth |-> 0]

IdleFilter == [state |-> "idle", next |-> 0, class |-> <<>>, newIndices |-> <<>>]

IdleRun ==
    [state |-> "idle", thresholds |-> <<>>, ti |-> 0, grid |-> <<>>, gw |-> 0, gh |-> 0,
     ref |-> 0, heightScale |-> 0, tolSq |-> <<0, 1>>, maxVertices |-> 0,
     segmentChunks |-> <<>>, totalVertices |-> 0,
     result |-> [segments |-> <<>>, vertexCount |-> 0, aborted |-> "undefined"]]

\* _computeVertexColorsAsync up to processInChunks: depthRange is read once
ColorsBegin(m) ==
    [state |-> "run", next |-> 0, buf |-> <<>>,
     minDepth |-> m.depthRange[1], maxDepth |-> m.depthRange[2]]

\* one chunk of the colouring callback: this.referenceElevation is read per vertex
ColorsChunk(m, t) ==
    LET total == VertexCount(m.gridWidth, m.gridHeight)
        to    == ChunkEnd(t.next, total, ColorChunkSize)
    IN  [t EXCEPT !.next = to,
                  !.state = ChunkState(to, total),
                  !.buf = @ \o [k \in 1..(to - t.next) |->
                            VertexColor(m.elevationData, m.noDataValue, m.gridWidth,
                                        m.gridHeight, t.next + k - 1,
                                        m.referenceElevation, t.minDepth, t.maxDepth)]]

\* the colour attribute as geometry.setAttribute('color', ...) installs it
ColorAttribute(buf) == [i \in 0..(Len(buf) - 1) |-> buf[i + 1]]

\* _filterAboveWaterTrianglesAsync up to processInChunks: the vertex pre-pass
FilterBegin(m) ==
    [state |-> "run", next |-> 0, newIndices |-> <<>>,
     class |-> ClassifyVertices(m.elevationData, m.noDataValue, m.gridWidth,
                                m.gridHeight, m.referenceElevation)]

\* one chunk of a filtering that reads the buffer the last filtering left
FilterChunkStepFromFiltered(m, t) ==
    LET total == Len(m.index) \div 3
        to    == ChunkEnd(t.next, total, FilterChunkSize)
    IN  [t EXCEPT !.next = to,
                  !.state = ChunkState(to, total),
                  !.newIndices = FilterChunk(m.index, t.class, @, t.next, to)]

\* one chunk of the filtering callback
FilterChunkStep(m, t) ==
    LET total == Len(m.originalIndices) \div 3
        to    == ChunkEnd(t.next, total, FilterChunkSize)
    IN  [t EXCEPT !.next = to,
                  !.state = ChunkState(to, total),
                  !.newIndices = FilterChunk(m.originalIndices, t.class, @, t.next, to)]

\* TerrainMesh._updateVerticesCPU: positions, then the synchronous recolouring
UpdateVerticesCPU(m) ==
    [m EXCEPT !.positionsY =
                 [i \in 0..(VertexCount(m.gridWidth, m.gridHeight) - 1) |->
                     VertexHeightCPU(m.elevationData, m.noDataValue, m.gridWidth,
                                     m.gridHeight, i, m.referenceElevation,
                                     m.zExaggeration)],
              !.colors = ComputeVertexColors(m.elevationData, m.noDataValue,
                                             m.gridWidth, m.gridHeight,
                                             m.referenceElevation, m.depthRange)]

\* TerrainMesh.setElevationConfig
SetElevationConfig(m, ref, range, noData) ==
    [m EXCEPT !.referenceElevation = ref, !.depthRange = range, !.noDataValue = noData]

\* TerrainMesh.setZExaggeration
MeshSetZExaggeration(m, factor) ==
    LET z  == Max2(DEFAULT_CONFIG.minZExaggeration,
                   Min2(DEFAULT_CONFIG.maxZExaggeration, factor))
        m1 == [m EXCEPT !.zExaggeration = z]
    IN  IF m.useGPUDisplacement THEN m1 ELSE UpdateVerticesCPU(m1)

(***************************************************************************)
(* OverlayLayers; o = [contours, visibility, lastZExaggeration]            *)
(***************************************************************************)

\* OverlayLayers.createContoursFromSegments
CreateContoursFromSegments(o, m, segments) ==
    [o EXCEPT !.lastZExaggeration = m.zExaggeration, !.contours = segments]

\* OverlayLayers._scaleGroupY: every stored Y times new / last
ScaleGroupY(segments, new, last) ==
    [k \in 1..Len(segments) |->
        [segments[k] EXCEPT !.y = RMul(@, Frac(new, last)),
                            !.oy = RMul(@, Frac(new, last))]]

\* OverlayLayers.updateForZExaggeration
UpdateForZExaggeration(o, m) ==
    IF o.lastZExaggeration = Null \/ o.lastZExaggeration = m.zExaggeration
    THEN [o EXCEPT !.lastZExaggeration = m.zExaggeration]
    ELSE [o EXCEPT !.contours = ScaleGroupY(@, m.zExaggeration, o.lastZExaggeration),
                   !.lastZExaggeration = m.zExaggeration]

\* OverlayLayers.setVisibility('contours', visible)
SetVisibility(o, visible) == [o EXCEPT !.visibility = visible]

(***************************************************************************)
(* State                                                                   *)
(***************************************************************************)

VARIABLES
    terrainMesh,    \* the TerrainMesh: raster, grid, elevation config, buffers
    orch,           \* the orchestrator (TerrainViewer or main.js) and its flags
    overlayLayers,  \* the OverlayLayers: displayed contours, visibility
    ops,            \* the asynchronous calls issued so far, by number
    timers,         \* the pending setTimeout(0) callbacks, oldest first
    budgetReported  \* a generation reported the budget exceeded and the
                    \* caller has not changed the interval since

vars == <<terrainMesh, orch, overlayLayers, ops, timers, budgetReported>>

\* the state as one value, for the operators that compute a whole task
World ==
    [terrainMesh |-> terrainMesh, orch |-> orch, overlayLayers |-> overlayLayers,
     ops |-> ops, timers |-> timers, budgetReported |-> budgetReported]

\* the state becomes w
Becomes(w) ==
    /\ terrainMesh' = w.terrainMesh
    /\ orch' = w.orch
    /\ overlayLayers' = w.overlayLayers
    /\ ops' = w.ops
    /\ timers' = w.timers
    /\ budgetReported' = w.budgetReported

\* the record of a call: kind, argument, where it stands (state "update",
\* "contours" or "finished"), its tasks, and what is remembered of it:
\* blocked (issued after an exceeded report, interval unchanged since) and
\* genInterval (the interval it called generateContours with, or Null)
NewOp(kind, val, blocked) ==
    [kind |-> kind, val |-> val, state |-> "update", colors |-> IdleColors,
     filter |-> IdleFilter, gen |-> IdleRun, blocked |-> blocked,
     genInterval |-> Null]

\* the record of a call that ran to its end in the task that issued it
SyncOp(kind, val) == [NewOp(kind, val, FALSE) EXCEPT !.state = "finished"]

\* the calls that have started and not finished
InFlight(o) == {i \in 1..Len(o) : o[i].state # "finished"}

\* the call's promise resolves; its buffers are dropped
Finish(w, id) ==
    [w EXCEPT !.ops[id].state = "finished", !.ops[id].colors = IdleColors,
              !.ops[id].filter = IdleFilter, !.ops[id].gen = IdleRun]

(***************************************************************************)
(* Continuations of the orchestrators                                      *)
(***************************************************************************)

\* what is kept of a result in _lastContourResult
Kept(result) == [vertexCount |-> result.vertexCount, aborted |-> result.aborted]

\* TerrainViewer._generateContours after the await
ViewerContoursDone(w, result) ==
    LET w1 == [w EXCEPT !.orch.lastContourResult = Kept(result)]
    IN  IF result.aborted = "true"
        THEN [w1 EXCEPT !.orch.contoursExceedLimit = TRUE,
                        !.orch.contoursVisible = FALSE,
                        !.overlayLayers = SetVisibility(@, FALSE),
                        !.budgetReported = TRUE]
        ELSE IF result.vertexCount > 0
        THEN [w1 EXCEPT !.orch.contoursExceedLimit = FALSE,
                        !.overlayLayers =
                            SetVisibility(
                                CreateContoursFromSegments(@, w.terrainMesh, result.segments),
                                w.orch.contoursVisible)]
        ELSE w1

\* generateContours of main.js after the await; contoursVisible is the
\* checked state of the contour toggle
MainContoursDone(w, result) ==
    LET w1 == [w EXCEPT !.orch.lastContourResult = Kept(result)]
    IN  IF result.aborted = "true"
        THEN [w1 EXCEPT !.orch.contoursExceedLimit = TRUE,
                        !.orch.contoursVisible = FALSE,
                        !.overlayLayers = SetVisibility(@, FALSE),
                        !.budgetReported = TRUE]
        ELSE IF result.vertexCount > 0
        THEN [w1 EXCEPT !.orch.contoursExceedLimit = FALSE,
                        !.overlayLayers =
                            CreateContoursFromSegments(@, w.terrainMesh, result.segments)]
        ELSE w1

\* the generation of call id has returned
ContoursDone(w, id) ==
    LET result == w.ops[id].gen.result
    IN  CASE w.ops[id].kind = "generateContours" ->
                [w EXCEPT !.ops[id].state = "finished"]
          [] w.orch.host = "TerrainViewer" -> Finish(ViewerContoursDone(w, result), id)
          [] OTHER -> Finish(MainContoursDone(w, result), id)

\* the generation of call id has moved: it has returned, or it waits again
AfterContoursStep(w, id) ==
    IF w.ops[id].gen.state = "done" THEN ContoursDone(w, id)
    ELSE [w EXCEPT !.timers = Append(@, [op |-> id, part |-> "contours"])]

\* the orchestrator's generateContours(interval) up to its first await
ContoursBegin(w, id, interval) ==
    AfterContoursStep(
        [w EXCEPT !.ops[id].state = "contours",
                  !.ops[id].genInterval = interval,
                  !.ops[id].gen =
                      GenerateContoursStart(
                          w.terrainMesh.elevationData, w.terrainMesh.noDataValue,
                          w.terrainMesh.gridWidth, w.terrainMesh.gridHeight,
                          w.terrainMesh.zExaggeration,
                          w.orch.elevationInfo.referenceElevation,
                          w.orch.elevationInfo.minElevation, interval,
                          SimplifyTolSq, MaxContourVertices)], id)

\* the guard of the regeneration after await updateReferenceElevation:
\* TerrainViewer.setReferenceElevation, and the slider callback of main.js
RegeneratesAfterUpdate(o) ==
    IF o.host = "TerrainViewer"
    THEN ~o.contoursExceedLimit /\ o.contoursVisible
    ELSE ~o.contoursExceedLimit

\* setReferenceElevation (TerrainViewer) and the slider callback (main.js)
\* after await updateReferenceElevation
AfterUpdate(w, id) ==
    IF w.ops[id].kind = "setReferenceElevation" /\ RegeneratesAfterUpdate(w.orch)
    THEN ContoursBegin(w, id, w.orch.interval)
    ELSE Finish(w, id)

\* updateReferenceElevation after Promise.all, if both tasks are done
Join(w, id) ==
    IF w.ops[id].colors.state = "done" /\ w.ops[id].filter.state = "done"
    THEN AfterUpdate(
            [w EXCEPT !.terrainMesh = IF @.useGPUDisplacement THEN @
                                      ELSE UpdateVerticesCPU(@)], id)
    ELSE w

\* a colour task moved to t: the attribute is installed when it is done
ColorsStep(w, id, t) ==
    [w EXCEPT !.ops[id].colors = t,
              !.terrainMesh.colors = IF t.state = "done" THEN ColorAttribute(t.buf) ELSE @,
              !.terrainMesh.twinColors =
                  IF t.state = "done" THEN ColorAttribute(t.buf) ELSE @,
              !.timers = IF t.state = "yield"
                         THEN Append(@, [op |-> id, part |-> "colors"]) ELSE @]

\* a filter task moved to t: the index is installed when it is done
FilterStep(w, id, t) ==
    [w EXCEPT !.ops[id].filter = t,
              !.terrainMesh.index = IF t.state = "done" THEN t.newIndices ELSE @,
              !.timers = IF t.state = "yield"
                         THEN Append(@, [op |-> id, part |-> "filter"]) ELSE @]

\* _computeVertexColorsAsync up to its first timer
StartColors(w, id) ==
    ColorsStep(w, id, ColorsChunk(w.terrainMesh, ColorsBegin(w.terrainMesh)))

\* _filterAboveWaterTrianglesAsync up to its first timer
StartFilter(w, id) ==
    FilterStep(w, id, FilterChunkStep(w.terrainMesh, FilterBegin(w.terrainMesh)))

\* TerrainMesh.updateReferenceElevation up to the first timer
UpdateReferenceElevation(w, id, ref) ==
    Join(StartFilter(StartColors([w EXCEPT !.terrainMesh.referenceElevation = ref],
                                 id), id), id)

\* the synchronous head both orchestrators share: elevationInfo, then
\* setElevationConfig, then updateReferenceElevation
SetReferenceElevationBegin(w, elevation) ==
    LET id    == Len(w.ops) + 1
        range == DepthRangeFor(elevation, w.orch.elevationInfo.minElevation)
        w1    == [w EXCEPT !.orch.elevationInfo.referenceElevation = elevation,
                           !.orch.elevationInfo.depthRange = range,
                           !.terrainMesh = SetElevationConfig(@, elevation, range,
                                               w.orch.elevationInfo.noDataValue),
                           !.ops = Append(@, NewOp("setReferenceElevation", elevation,
                                                   w.budgetReported))]
    IN  UpdateReferenceElevation(w1, id, elevation)

(***************************************************************************)
(* The loaded terrains and the values callers pass                         *)
(***************************************************************************)

\* this.elevationData = null, elevationWidth = elevationHeight = 0
NullData == [w |-> 0, h |-> 0, d |-> <<>>]

\* new TerrainMesh(): no elevation grid and no geometry yet; the reference
\* elevation is 157 m and the depth range [0, 31]
Constructed ==
    [elevationData |-> NullData, noDataValue |-> Null,
     gridWidth |-> 0, gridHeight |-> 0, useGPUDisplacement |-> TRUE,
     referenceElevation |-> 314, depthRange |-> <<0, 31>>,
     zExaggeration |-> DEFAULT_CONFIG.defaultZExaggeration,
     colors |-> <<>>, twinColors |-> <<>>, index |-> <<>>,
     originalIndices |-> <<>>, positionsY |-> <<>>]

\* a flat 2 x 2 raster at 1.5 m
Flat == [elevationData |-> [w |-> 2, h |-> 2, d |-> <<3, 3, 3, 3>>],
         noDataValue |-> Null, gridWidth |-> 2, gridHeight |-> 2]

\* a 3 x 3 plateau at 3 m with three pits in its corners, 0 m, 2 m and 2 m
Pits == [elevationData |-> [w |-> 3, h |-> 3, d |-> <<0, 6, 4, 6, 6, 6, 4, 6, 6>>],
         noDataValue |-> Null, gridWidth |-> 3, gridHeight |-> 3]

\* a 3 x 3 ramp from 0 m to 2 m with a NoData cell in its last corner
RampWithHole ==
    [elevationData |-> [w |-> 3, h |-> 3, d |-> <<0, 2, 4, 0, 2, 4, 0, 2, -19998>>],
     noDataValue |-> -19998, gridWidth |-> 3, gridHeight |-> 3]

\* a 3 x 3 ramp from 0 m to 2 m with a NoData cell in its first corner
RampWithCornerHole ==
    [elevationData |-> [w |-> 3, h |-> 3, d |-> <<-19998, 2, 4, 0, 2, 4, 0, 2, 4>>],
     noDataValue |-> -19998, gridWidth |-> 3, gridHeight |-> 3]

\* a 3 x 3 raster at 0 m with a 2 m plateau in one corner, 3 m at its tip
Mesa == [elevationData |-> [w |-> 3, h |-> 3, d |-> <<0, 0, 0, 0, 4, 4, 0, 4, 6>>],
         noDataValue |-> Null, gridWidth |-> 3, gridHeight |-> 3]

\* a 3 x 2 raster of NoData only; with a valid fraction of 0 the planned
\* grid is the raster's size (targetPolygons = 3,000,000)
AllNoData ==
    [elevationData |-> [w |-> 3, h |-> 2,
                        d |-> <<-19998, -19998, -19998, -19998, -19998, -19998>>],
     noDataValue |-> -19998,
     gridWidth |-> CalculateGridDimensions(3, 2, 3000000, 0, 1).gridWidth,
     gridHeight |-> CalculateGridDimensions(3, 2, 3000000, 0, 1).gridHeight]

\* a 3 x 2 raster with a non-finite sample and a sample of 1e5 m
Holes ==
    [elevationData |-> [w |-> 3, h |-> 2, d |-> <<NaN, 2, 4, 6, NO_DATA_THRESHOLD, 8>>],
     noDataValue |-> Null, gridWidth |-> 3, gridHeight |-> 2]

\* slopedGrid(10, 10, 0, 100): the 10 x 10 ramp from 0 m in the first column
\* to 100 m in the last, column x at 100 * x / 9 m, to the half metre
RampColumns == <<0, 22, 44, 67, 89, 111, 133, 156, 178, 200>>

Ramp10 ==
    [elevationData |-> [w |-> 10, h |-> 10,
                        d |-> RampColumns \o RampColumns \o RampColumns \o RampColumns
                              \o RampColumns \o RampColumns \o RampColumns
                              \o RampColumns \o RampColumns \o RampColumns],
     noDataValue |-> Null, gridWidth |-> 10, gridHeight |-> 10]

\* the loads the model starts from: terrain, orchestrator, and whether the
\* renderer supports vertex textures (GPU displacement) or not (CPU fallback)
Setups ==
    {<<Pits, "TerrainViewer", TRUE>>, <<Pits, "main", TRUE>>,
     <<Flat, "TerrainViewer", FALSE>>, <<RampWithHole, "main", FALSE>>}

\* reference elevations a caller sets: 1.5 m, 3 m
RefValues == {3, 6}

\* reference elevations a caller of generateContours passes: 0 m, 1.5 m, 3 m
ContourRefValues == {0, 3, 6}

\* contour intervals a caller sets: 0.5 m, 1 m
IntervalValues == {1, 2}

\* simplifyTolerance values a caller of generateContours passes, squared
TolSqValues == {<<0, 1>>, SimplifyTolSq}

\* maxVertices values a caller of generateContours passes (0: no budget)
CapValues == {0, 2, 5}

\* the loads the direct calls of generateContours start from
ContourSetups ==
    {<<Pits, "main", TRUE>>, <<RampWithHole, "main", FALSE>>,
     <<RampWithCornerHole, "main", FALSE>>, <<Mesa, "main", TRUE>>}

\* exaggeration factors a caller sets
ZValues == {2}

\* visibilities a caller sets: the contours, shown after the build, are hidden
VisibleValues == {FALSE}

\* options.contours.interval: 1 m
InitialInterval == 2

(***************************************************************************)
(* The state after the terrain is built (_buildTerrain, buildTerrain)      *)
(***************************************************************************)

\* TerrainMesh.createFromData after setElevationConfig(ref, range, noData)
\* twinColors is the colour attribute a mesh on the GPU path holds after the
\* same calls: only _computeVertexColorsAsync writes it, never the
\* recolouring of _updateVerticesCPU
NewMesh(t, gpu, ref, range) ==
    [elevationData |-> t.elevationData, noDataValue |-> t.noDataValue,
     gridWidth |-> t.gridWidth, gridHeight |-> t.gridHeight,
     useGPUDisplacement |-> gpu,
     referenceElevation |-> ref, depthRange |-> range,
     zExaggeration |-> DEFAULT_CONFIG.defaultZExaggeration,
     colors |-> ComputeVertexColors(t.elevationData, t.noDataValue, t.gridWidth,
                                    t.gridHeight, ref, range),
     twinColors |-> ComputeVertexColors(t.elevationData, t.noDataValue, t.gridWidth,
                                        t.gridHeight, ref, range),
     index |-> FilterAboveWaterTriangles(t.elevationData, t.noDataValue, t.gridWidth,
                   t.gridHeight, PlaneIndex(t.gridWidth, t.gridHeight), ref),
     originalIndices |-> PlaneIndex(t.gridWidth, t.gridHeight),
     positionsY |-> [i \in 0..(VertexCount(t.gridWidth, t.gridHeight) - 1) |-> 0]]

\* the CPU fallback displaces the vertices once the mesh exists
Displaced(m) == IF m.useGPUDisplacement THEN m ELSE UpdateVerticesCPU(m)

\* the orchestrator and the overlay around the mesh m, before the contours
NewWorld(m, host, minElev, ref, range) ==
    [terrainMesh |-> m,
     orch |-> [host |-> host,
               elevationInfo |-> [minElevation |-> minElev,
                                  maxElevation |-> ref,
                                  referenceElevation |-> ref,
                                  depthRange |-> range,
                                  noDataValue |-> m.noDataValue],
               interval |-> InitialInterval,
               contoursExceedLimit |-> FALSE,
               contoursVisible |-> TRUE,
               lastContourResult |-> [vertexCount |-> Null,
                                      aborted |-> "undefined"]],
     overlayLayers |-> [contours |-> <<>>, visibility |-> TRUE,
                        lastZExaggeration |-> Null],
     ops |-> <<>>, timers |-> <<>>, budgetReported |-> FALSE]

\* the result of the generation the build awaits
FirstContours(w) ==
    GenerateContoursRun(
        GenerateContoursStart(
            w.terrainMesh.elevationData, w.terrainMesh.noDataValue,
            w.terrainMesh.gridWidth, w.terrainMesh.gridHeight,
            w.terrainMesh.zExaggeration,
            w.orch.elevationInfo.referenceElevation,
            w.orch.elevationInfo.minElevation, w.orch.interval,
            SimplifyTolSq, MaxContourVertices)).result

\* the orchestrator takes the result of the first generation
WithContours(w, result) ==
    IF w.orch.host = "TerrainViewer" THEN ViewerContoursDone(w, result)
    ELSE MainContoursDone(w, result)

\* the build ends with the first generation of contours
BuildContours(w) == WithContours(w, FirstContours(w))

\* the build up to the mesh: analyzeElevation has found the range
\* minElev..ref, the reference elevation starts at the maximum, and
\* createFromData has returned
CreatedWith(t, host, gpu, minElev, ref) ==
    NewWorld(Displaced(NewMesh(t, gpu, ref, DepthRangeFor(ref, minElev))),
             host, minElev, ref, DepthRangeFor(ref, minElev))

\* the whole build
BuiltWith(t, host, gpu, minElev, ref) ==
    BuildContours(CreatedWith(t, host, gpu, minElev, ref))

Built(t, host, gpu) ==
    BuiltWith(t, host, gpu, AnalyzeMin(t.elevationData, t.noDataValue),
              AnalyzeMax(t.elevationData, t.noDataValue))

\* the state is w
Is(w) ==
    /\ terrainMesh = w.terrainMesh
    /\ orch = w.orch
    /\ overlayLayers = w.overlayLayers
    /\ ops = w.ops
    /\ timers = w.timers
    /\ budgetReported = w.budgetReported

Init == \E s \in Setups : Is(Built(s[1], s[2], s[3]))

(***************************************************************************)
(* Calls of the TerrainViewer API                                          *)
(***************************************************************************)

\* TerrainViewer.setReferenceElevation(elevation)
ViewerSetReferenceElevation(elevation) ==
    /\ orch.host = "TerrainViewer"
    /\ Len(ops) < MaxCalls
    /\ Becomes(SetReferenceElevationBegin(World, elevation))

\* TerrainViewer.setZExaggeration(factor)
ViewerSetZExaggeration(factor) ==
    /\ orch.host = "TerrainViewer"
    /\ Len(ops) < MaxCalls
    /\ terrainMesh' = MeshSetZExaggeration(terrainMesh, factor)
    /\ overlayLayers' = IF ~orch.contoursExceedLimit
                        THEN UpdateForZExaggeration(overlayLayers, terrainMesh')
                        ELSE overlayLayers
    /\ ops' = Append(ops, SyncOp("setZExaggeration", factor))
    /\ UNCHANGED <<orch, timers, budgetReported>>

\* TerrainViewer.setContourInterval(interval)
ViewerSetContourInterval(interval) ==
    /\ orch.host = "TerrainViewer"
    /\ Len(ops) < MaxCalls
    /\ LET id == Len(ops) + 1
           w1 == [World EXCEPT
                    !.orch.interval = interval,
                    !.budgetReported = FALSE,
                    !.ops = Append([i \in 1..Len(ops) |-> [ops[i] EXCEPT !.blocked =
                                        IF ops[i].kind = "setReferenceElevation"
                                        THEN FALSE ELSE @]],
                                   NewOp("setContourInterval", interval, budgetReported))]
       IN  Becomes(IF ~orch.contoursExceedLimit
                   THEN ContoursBegin(w1, id, interval)
                   ELSE Finish(w1, id))

\* TerrainViewer.setContourVisibility(visible)
ViewerSetContourVisibility(visible) ==
    /\ orch.host = "TerrainViewer"
    /\ Len(ops) < MaxCalls
    /\ IF orch.contoursExceedLimit
       THEN UNCHANGED <<orch, overlayLayers>>
       ELSE /\ orch' = [orch EXCEPT !.contoursVisible = visible]
            /\ overlayLayers' = SetVisibility(overlayLayers, visible)
    /\ ops' = Append(ops, SyncOp("setContourVisibility", IF visible THEN 1 ELSE 0))
    /\ UNCHANGED <<terrainMesh, timers, budgetReported>>

(***************************************************************************)
(* Handlers of the viewer page (main.js)                                   *)
(***************************************************************************)

\* the debounced callback of the reference elevation slider, val the
\* slider's value, between the slider's min and max
MainRefSliderTimeout(val) ==
    /\ orch.host = "main"
    /\ Len(ops) < MaxCalls
    /\ orch.elevationInfo.minElevation <= val
    /\ val <= orch.elevationInfo.maxElevation
    /\ Becomes(SetReferenceElevationBegin(World, val))

\* the input handler of the Z-exaggeration slider
MainZSliderInput(val) ==
    /\ orch.host = "main"
    /\ Len(ops) < MaxCalls
    /\ terrainMesh' = MeshSetZExaggeration(terrainMesh, val)
    /\ overlayLayers' = IF ~orch.contoursExceedLimit
                        THEN UpdateForZExaggeration(overlayLayers, terrainMesh')
                        ELSE overlayLayers
    /\ ops' = Append(ops, SyncOp("setZExaggeration", val))
    /\ UNCHANGED <<orch, timers, budgetReported>>

\* the change handler of the contour interval input; orch.interval is the
\* input's value
MainContourIntervalChange(interval) ==
    /\ orch.host = "main"
    /\ Len(ops) < MaxCalls
    /\ LET id == Len(ops) + 1
           w1 == [World EXCEPT
                    !.orch.interval = interval,
                    !.budgetReported = FALSE,
                    !.ops = Append([i \in 1..Len(ops) |-> [ops[i] EXCEPT !.blocked =
                                        IF ops[i].kind = "setReferenceElevation"
                                        THEN FALSE ELSE @]],
                                   NewOp("setContourInterval", interval, budgetReported))]
       IN  Becomes(ContoursBegin(w1, id, interval))

\* the change handler of the contour toggle; the toggle is disabled while
\* contoursExceedLimit is set, so it cannot change then
MainContourToggleChange(checked) ==
    /\ orch.host = "main"
    /\ Len(ops) < MaxCalls
    /\ ~orch.contoursExceedLimit
    /\ orch' = [orch EXCEPT !.contoursVisible = checked]
    /\ overlayLayers' = SetVisibility(overlayLayers, checked)
    /\ ops' = Append(ops, SyncOp("setContourVisibility", IF checked THEN 1 ELSE 0))
    /\ UNCHANGED <<terrainMesh, timers, budgetReported>>

(***************************************************************************)
(* The event loop: the oldest setTimeout(0) callback runs                  *)
(***************************************************************************)

\* processInChunks of a colouring resumes
ColorsTimer ==
    /\ timers # <<>>
    /\ Head(timers).part = "colors"
    /\ LET id == Head(timers).op
           w1 == [World EXCEPT !.timers = Tail(@)]
       IN  Becomes(Join(ColorsStep(w1, id,
                           ColorsChunk(w1.terrainMesh, w1.ops[id].colors)), id))

\* processInChunks of a filtering resumes
FilterTimer ==
    /\ timers # <<>>
    /\ Head(timers).part = "filter"
    /\ LET id == Head(timers).op
           w1 == [World EXCEPT !.timers = Tail(@)]
       IN  Becomes(Join(FilterStep(w1, id,
                           FilterChunkStep(w1.terrainMesh, w1.ops[id].filter)), id))

\* generateContours resumes after a threshold
ContoursTimer ==
    /\ timers # <<>>
    /\ Head(timers).part = "contours"
    /\ Becomes(AfterContoursStep(
                   [World EXCEPT !.timers = Tail(@),
                                 !.ops[Head(timers).op].gen = GenerateContoursResume(@)],
                   Head(timers).op))

Next ==
    \/ \E elevation \in RefValues : ViewerSetReferenceElevation(elevation)
    \/ \E factor \in ZValues : ViewerSetZExaggeration(factor)
    \/ \E interval \in IntervalValues : ViewerSetContourInterval(interval)
    \/ \E visible \in VisibleValues : ViewerSetContourVisibility(visible)
    \/ \E val \in RefValues : MainRefSliderTimeout(val)
    \/ \E val \in ZValues : MainZSliderInput(val)
    \/ \E interval \in IntervalValues : MainContourIntervalChange(interval)
    \/ \E checked \in VisibleValues : MainContourToggleChange(checked)
    \/ ColorsTimer
    \/ FilterTimer
    \/ ContoursTimer

Spec == Init /\ [][Next]_vars

(***************************************************************************)
(* Direct calls of TerrainMesh.generateContours                            *)
(***************************************************************************)

\* terrainMesh.generateContours(ref, minElevation, interval, heightOffset,
\* onProgress, simplifyTolerance, maxVertices) up to its first yield or
\* its return; the run stays in the call's record.  Without an elevation
\* grid or a sampling grid the call returns null (gen.state = "null")
MeshGenerateContours(ref, interval, tolSq, maxVertices) ==
    /\ Len(ops) < MaxRuns
    /\ IF \/ terrainMesh.elevationData = NullData
          \/ terrainMesh.gridWidth = 0 \/ terrainMesh.gridHeight = 0
       THEN /\ ops' = Append(ops, [SyncOp("generateContours", interval) EXCEPT
                                      !.gen.state = "null"])
            /\ UNCHANGED <<terrainMesh, orch, overlayLayers, timers, budgetReported>>
       ELSE Becomes(AfterContoursStep(
                   [World EXCEPT !.ops = Append(@,
                       [NewOp("generateContours", interval, FALSE) EXCEPT
                           !.state = "contours",
                           !.genInterval = interval,
                           !.gen = GenerateContoursStart(
                                       terrainMesh.elevationData,
                                       terrainMesh.noDataValue,
                                       terrainMesh.gridWidth, terrainMesh.gridHeight,
                                       terrainMesh.zExaggeration, ref,
                                       orch.elevationInfo.minElevation, interval,
                                       tolSq, maxVertices)])],
                   Len(ops) + 1))

InitContours == \E s \in ContourSetups : Is(Built(s[1], s[2], s[3]))

NextContours ==
    \/ \E ref \in ContourRefValues, interval \in IntervalValues,
          tolSq \in TolSqValues, maxVertices \in CapValues :
          MeshGenerateContours(ref, interval, tolSq, maxVertices)
    \/ ContoursTimer

SpecContours == InitContours /\ [][NextContours]_vars

(***************************************************************************)
(* generateContours on the 10 x 10 ramp, at the reference elevation the    *)
(* mesh was created with (the maximum, 100 m)                              *)
(***************************************************************************)

\* the contour intervals passed: 5 m, 10 m, 20 m, and 200 m, more than the
\* range
RampIntervals == {10, 20, 40, 400}

\* the loads of the ramp
RampSetups == {<<Ramp10, "main", TRUE>>, <<Ramp10, "TerrainViewer", FALSE>>}

\* the mesh of the ramp is created; no contours have been generated yet
InitRamp ==
    \E s \in RampSetups :
        Is(CreatedWith(s[1], s[2], s[3], AnalyzeMin(s[1].elevationData, Null),
                       AnalyzeMax(s[1].elevationData, Null)))

NextRamp ==
    \/ \E interval \in RampIntervals, tolSq \in TolSqValues :
          MeshGenerateContours(orch.elevationInfo.referenceElevation, interval,
                               tolSq, 0)
    \/ ContoursTimer

SpecRamp == InitRamp /\ [][NextRamp]_vars

(***************************************************************************)
(* Direct calls of the other TerrainMesh methods                           *)
(***************************************************************************)

\* the number of direct calls one behaviour issues
MaxDirect == 2

\* the loads the direct calls start from
DirectSetups == {Pits, RampWithHole, Holes}

\* the u and v a caller passes, as <<numerator, denominator>>
UVValues == {<<0, 1>>, <<1, 4>>, <<1, 2>>, <<3, 4>>, <<1, 1>>}

\* TerrainMesh._sampleElevation(u, v): the sample times u[2] * v[2], or NaN;
\* 0 without an elevation grid
MeshSampleElevation(m, u, v) ==
    IF m.elevationData = NullData THEN 0
    ELSE SampleElevation(m.elevationData, m.noDataValue, u[1], u[2], v[1], v[2])

\* a caller samples the mesh at (u, v)
CallSampleElevation(u, v) ==
    /\ Len(ops) < MaxDirect
    /\ ops' = Append(ops, SyncOp("_sampleElevation",
                  [u |-> u, v |-> v, result |-> MeshSampleElevation(terrainMesh, u, v)]))
    /\ UNCHANGED <<terrainMesh, orch, overlayLayers, timers, budgetReported>>

\* a built terrain, or the all-NoData raster after createFromData on
\* either displacement path, configured with a reference elevation and the
\* depth range [0, 1]
InitDirect ==
    \/ \E t \in DirectSetups : Is(Built(t, "main", TRUE))
    \/ \E gpu \in BOOLEAN, ref \in RefValues :
          Is(CreatedWith(AllNoData, "main", gpu, ref, ref))

NextDirect ==
    \/ \E u \in UVValues, v \in UVValues : CallSampleElevation(u, v)

SpecDirect == InitDirect /\ [][NextDirect]_vars

(***************************************************************************)
(* Calls of TerrainMesh methods before createFromData                      *)
(***************************************************************************)

\* terrainMesh.updateReferenceElevation(elevation), called directly, up to
\* its first timer; without geometry or elevation grid it returns after
\* the assignment
CallUpdateReferenceElevation(elevation) ==
    /\ Len(ops) < MaxDirect
    /\ IF terrainMesh.elevationData = NullData
       THEN Becomes([World EXCEPT
                        !.terrainMesh.referenceElevation = elevation,
                        !.ops = Append(@, SyncOp("updateReferenceElevation", elevation))])
       ELSE Becomes(UpdateReferenceElevation(
                        [World EXCEPT !.ops = Append(@,
                            NewOp("updateReferenceElevation", elevation, FALSE))],
                        Len(ops) + 1, elevation))

\* a mesh fresh from its constructor; nothing has been loaded
InitUnset == Is(NewWorld(Constructed, "main", Null, Null, Null))

NextUnset ==
    \/ \E u \in UVValues, v \in UVValues : CallSampleElevation(u, v)
    \/ \E elevation \in RefValues : CallUpdateReferenceElevation(elevation)
    \/ \E interval \in IntervalValues :
          MeshGenerateContours(terrainMesh.referenceElevation, interval,
                               SimplifyTolSq, 0)

SpecUnset == InitUnset /\ [][NextUnset]_vars

(***************************************************************************)
(* Calls of _calculateGridDimensions on a mesh whose elevationWidth,       *)
(* elevationHeight and config.targetPolygons the caller has set            *)
(***************************************************************************)

\* tm.elevationWidth = ew; tm.elevationHeight = eh;
\* tm._calculateGridDimensions(f[1] / f[2]) with targetPolygons = targetPolys
CallCalculateGridDimensions(ew, eh, targetPolys, f) ==
    /\ Len(ops) < MaxDirect
    /\ ops' = Append(ops, SyncOp("_calculateGridDimensions",
                  [elevationWidth |-> ew, elevationHeight |-> eh,
                   targetPolygons |-> targetPolys, validFraction |-> f,
                   result |-> CalculateGridDimensions(ew, eh, targetPolys, f[1], f[2])]))
    /\ UNCHANGED <<terrainMesh, orch, overlayLayers, timers, budgetReported>>

\* rasters 1, 2 and 5 samples wide, 1 and 3 high; polygon targets 0, 10
\* and 1000; valid fractions 0, 1/2 and 1
NextGrid ==
    \/ \E ew \in {1, 2, 5}, eh \in {1, 3}, targetPolys \in {0, 10, 1000},
          f \in {<<0, 1>>, <<1, 2>>, <<1, 1>>} :
          CallCalculateGridDimensions(ew, eh, targetPolys, f)

SpecGrid == InitUnset /\ [][NextGrid]_vars

(***************************************************************************)
(* The two tasks of one updateReferenceElevation under any order of their  *)
(* chunks: whichever of the waiting setTimeout(0) callbacks runs next      *)
(***************************************************************************)

\* the loads the updates start from
TaskSetups ==
    {<<Pits, "main", TRUE>>, <<Pits, "main", FALSE>>,
     <<RampWithHole, "main", TRUE>>, <<RampWithHole, "main", FALSE>>}

\* the sequence s without its element k
RemoveAt(s, k) == SubSeq(s, 1, k - 1) \o SubSeq(s, k + 1, Len(s))

\* terrainMesh.updateReferenceElevation(elevation) once the call before it
\* has returned
CallUpdateAlone(elevation) ==
    /\ InFlight(ops) = {}
    /\ CallUpdateReferenceElevation(elevation)

\* a waiting callback of a colouring runs its chunk
ColorsChunkRuns ==
    \E k \in 1..Len(timers) :
        /\ timers[k].part = "colors"
        /\ LET id == timers[k].op
               w1 == [World EXCEPT !.timers = RemoveAt(@, k)]
           IN  Becomes(Join(ColorsStep(w1, id,
                               ColorsChunk(w1.terrainMesh, w1.ops[id].colors)), id))

\* a waiting callback of a filtering runs its chunk
FilterChunkRuns ==
    \E k \in 1..Len(timers) :
        /\ timers[k].part = "filter"
        /\ LET id == timers[k].op
               w1 == [World EXCEPT !.timers = RemoveAt(@, k)]
           IN  Becomes(Join(FilterStep(w1, id,
                               FilterChunkStep(w1.terrainMesh, w1.ops[id].filter)), id))

InitTasks == \E s \in TaskSetups : Is(Built(s[1], s[2], s[3]))

NextTasks ==
    \/ \E elevation \in RefValues : CallUpdateAlone(elevation)
    \/ ColorsChunkRuns
    \/ FilterChunkRuns

SpecTasks == InitTasks /\ [][NextTasks]_vars

(***************************************************************************)
(* The normal-map stage of createFromData.  The call is one record of ops; *)
(* its val holds stage ("fullRes": awaiting fullResElevationPromise,       *)
(* "normals": awaiting the generation on the swapped grid, "fallback":     *)
(* awaiting the generation of the catch block, "plain": awaiting the       *)
(* generation without a promise, "returned", "rejected"), meshData (the    *)
(* grid of the mesh), saved (savedData, NullData before the swap),         *)
(* normalMap and fallbackFrom (the grid the normal map, and the generation *)
(* of the catch block, read; NullData if none).  An await, of the promise  *)
(* or of a generation, ends by resolving or by throwing.                   *)
(***************************************************************************)

\* a 4 x 4 raster of the same area as the 3 x 3 ones, read at full resolution
FullRes ==
    [w |-> 4, h |-> 4, d |-> <<0, 4, 6, 4, 6, 6, 6, 6, 6, 6, 6, 6, 4, 6, 6, 6>>]

\* the terrains of the builds
NormalSetups == {Pits, RampWithHole}

\* createFromData at 'GENERATE_NORMALS', with or without a promise
NormalsBegin(m, withPromise) ==
    [NewOp("createFromData",
           [stage |-> IF withPromise THEN "fullRes" ELSE "plain",
            meshData |-> m.elevationData, saved |-> NullData,
            normalMap |-> NullData, fallbackFrom |-> NullData], FALSE)
        EXCEPT !.state = "update"]

\* the build of call 1 is at stage
AtStage(stage) ==
    /\ Len(ops) >= 1
    /\ ops[1].kind = "createFromData"
    /\ ops[1].val.stage = stage

\* await fullResElevationPromise resolves: the full-resolution grid is
\* swapped in and the generation starts
FullResArrives ==
    /\ AtStage("fullRes")
    /\ ops' = [ops EXCEPT ![1].val.saved = terrainMesh.elevationData,
                          ![1].val.stage = "normals"]
    /\ terrainMesh' = [terrainMesh EXCEPT !.elevationData = FullRes]
    /\ UNCHANGED <<orch, overlayLayers, timers, budgetReported>>

\* await fullResElevationPromise throws: the catch block starts its generation
FullResFails ==
    /\ AtStage("fullRes")
    /\ ops' = [ops EXCEPT ![1].val.fallbackFrom = terrainMesh.elevationData,
                          ![1].val.stage = "fallback"]
    /\ UNCHANGED <<terrainMesh, orch, overlayLayers, timers, budgetReported>>

\* the generation on the swapped grid resolves: the saved grid is put back
\* and createFromData returns the mesh
NormalsGenerated ==
    /\ AtStage("normals")
    /\ ops' = [ops EXCEPT ![1].val.normalMap = terrainMesh.elevationData,
                          ![1].val.stage = "returned",
                          ![1].state = "finished"]
    /\ terrainMesh' = [terrainMesh EXCEPT !.elevationData = ops[1].val.saved]
    /\ UNCHANGED <<orch, overlayLayers, timers, budgetReported>>

\* the generation on the swapped grid throws: the catch block starts its
\* generation
NormalsFail ==
    /\ AtStage("normals")
    /\ ops' = [ops EXCEPT ![1].val.fallbackFrom = terrainMesh.elevationData,
                          ![1].val.stage = "fallback"]
    /\ UNCHANGED <<terrainMesh, orch, overlayLayers, timers, budgetReported>>

\* the generation of the catch block, or the one without a promise,
\* resolves and createFromData returns the mesh
LowResGenerated ==
    /\ AtStage("fallback") \/ AtStage("plain")
    /\ ops' = [ops EXCEPT ![1].val.normalMap = terrainMesh.elevationData,
                          ![1].val.stage = "returned",
                          ![1].state = "finished"]
    /\ UNCHANGED <<terrainMesh, orch, overlayLayers, timers, budgetReported>>

\* that generation throws: createFromData rejects
LowResFails ==
    /\ AtStage("fallback") \/ AtStage("plain")
    /\ ops' = [ops EXCEPT ![1].val.stage = "rejected", ![1].state = "finished"]
    /\ UNCHANGED <<terrainMesh, orch, overlayLayers, timers, budgetReported>>

\* a caller samples the mesh createFromData returned
SampleBuilt(u, v) ==
    /\ AtStage("returned")
    /\ CallSampleElevation(u, v)

InitNormals ==
    \E t \in NormalSetups, gpu \in BOOLEAN, withPromise \in BOOLEAN :
        Is([CreatedWith(t, "main", gpu, AnalyzeMin(t.elevationData, t.noDataValue),
                        AnalyzeMax(t.elevationData, t.noDataValue))
              EXCEPT !.ops = <<NormalsBegin(t, withPromise)>>])

NextNormals ==
    \/ FullResArrives
    \/ FullResFails
    \/ NormalsGenerated
    \/ NormalsFail
    \/ LowResGenerated
    \/ LowResFails
    \/ \E u \in UVValues, v \in UVValues : SampleBuilt(u, v)

SpecNormals == InitNormals /\ [][NextNormals]_vars

(***************************************************************************)
(* Direct calls of TerrainMesh._simplifyPolyline2D                         *)
(***************************************************************************)

\* the longest polyline passed, in points
MaxPoints == 4

\* the points of the polylines: three on one line and one off it
PolyPoints ==
    {[x |-> <<0, 1>>, z |-> <<0, 1>>], [x |-> <<1, 1>>, z |-> <<0, 1>>],
     [x |-> <<2, 1>>, z |-> <<0, 1>>], [x |-> <<1, 1>>, z |-> <<1, 1>>]}

\* the polylines passed
Polylines == UNION {[1..n -> PolyPoints] : n \in 0..MaxPoints}

\* the tolerances passed, squared: 0, 0.1 and 10 grid cells
PolyTolSqValues == {<<0, 1>>, SimplifyTolSq, <<100, 1>>}

\* tm._simplifyPolyline2D(points, tolerance), once in a behaviour
CallSimplifyPolyline2D(points, tolSq) ==
    /\ ops = <<>>
    /\ ops' = Append(ops, SyncOp("_simplifyPolyline2D",
                  [points |-> points, tolSq |-> tolSq,
                   result |-> SimplifyPolyline2D(points, tolSq)]))
    /\ UNCHANGED <<terrainMesh, orch, overlayLayers, timers, budgetReported>>

NextSimplify ==
    \/ \E points \in Polylines, tolSq \in PolyTolSqValues :
          CallSimplifyPolyline2D(points, tolSq)

SpecSimplify == InitUnset /\ [][NextSimplify]_vars

(***************************************************************************)
(* Interval changes that leave no threshold                                *)
(***************************************************************************)

\* contour intervals a caller sets: 1 m, and 4 m, more than the depth of
\* any terrain of the model
WideIntervalValues == {2, 8}

NextWide ==
    \/ \E interval \in WideIntervalValues : ViewerSetContourInterval(interval)
    \/ \E interval \in WideIntervalValues : MainContourIntervalChange(interval)
    \/ ContoursTimer

SpecWide == Init /\ [][NextWide]_vars

(***************************************************************************)
(* One terrain load and its progress callbacks.  The load is one record of *)
(* ops, of kind "buildTerrain"; its val holds reports, the state of the    *)
(* LoadingProgress overlay after every progress callback so far (stage:    *)
(* currentStageIndex, percent: the progress shown), normals, the chunked   *)
(* task of _generateNormalMapCPUAsync ([state, next], next the first row   *)
(* not yet written), and contoursEnabled.  The setTimeout(0) callbacks run *)
(* oldest first.                                                           *)
(***************************************************************************)

\* LOADING_STAGES, the keys in order
LOADING_STAGES ==
    <<"LOAD_COG", "CREATE_TERRAIN", "COMPUTE_COLORS", "FILTER_GEOMETRY",
      "GENERATE_NORMALS", "CREATE_CONTOURS">>

\* LOADING_STAGES.findIndex(s => s.key === stageKey)
StageIndex(stageKey) ==
    (CHOOSE i \in 1..Len(LOADING_STAGES) : LOADING_STAGES[i] = stageKey) - 1

\* chunkSize of _generateNormalMapCPUAsync, in rows
NormalChunkRows == 2

\* the percentage setProgress shows for completed of total
Percent(completed, total) == Max2(0, Min2(100, (100 * completed) \div total))

\* the onProgress callback of the orchestrators: setStage(stageKey), which
\* shows 0, then setProgress unless progress is null (total = 0)
OnProgress(val, stageKey, completed, total) ==
    [val EXCEPT !.reports = Append(@,
        [stage |-> StageIndex(stageKey),
         percent |-> IF total = 0 THEN 0 ELSE Percent(completed, total)])]

\* the callback of call id runs
Reported(w, id, stageKey, completed, total) ==
    [w EXCEPT !.ops[id].val = OnProgress(@, stageKey, completed, total)]

\* processInChunks reports after the chunks of a colouring
ColorsReported(w, id) ==
    Reported(w, id, "COMPUTE_COLORS", w.ops[id].colors.next,
             VertexCount(w.terrainMesh.gridWidth, w.terrainMesh.gridHeight))

\* processInChunks reports after the chunks of a filtering
FilterReported(w, id) ==
    Reported(w, id, "FILTER_GEOMETRY", w.ops[id].filter.next,
             Len(w.terrainMesh.originalIndices) \div 3)

\* generateContours reports after a threshold, if the step ran one
ContoursReported(w, id) ==
    IF w.ops[id].gen.ti < Len(w.ops[id].gen.thresholds)
    THEN Reported(w, id, "CREATE_CONTOURS", w.ops[id].gen.ti + 1,
                  Len(w.ops[id].gen.thresholds))
    ELSE w

\* the generation of the load has moved: the orchestrator takes the result
\* and the load ends, or the generation waits again
LoadContoursStep(w, id) ==
    IF w.ops[id].gen.state = "done"
    THEN Finish(WithContours(w, w.ops[id].gen.result), id)
    ELSE [w EXCEPT !.timers = Append(@, [op |-> id, part |-> "contours"])]

\* after createFromData: onProgress('CREATE_CONTOURS', null) and the
\* generation up to its first yield, if contours are enabled
LoadContoursBegin(w, id) ==
    IF w.ops[id].val.contoursEnabled
    THEN LoadContoursStep(ContoursReported(
             [Reported(w, id, "CREATE_CONTOURS", 0, 0) EXCEPT
                 !.ops[id].state = "contours",
                 !.ops[id].genInterval = w.orch.interval,
                 !.ops[id].gen =
                     GenerateContoursStart(
                         w.terrainMesh.elevationData, w.terrainMesh.noDataValue,
                         w.terrainMesh.gridWidth, w.terrainMesh.gridHeight,
                         w.terrainMesh.zExaggeration,
                         w.orch.elevationInfo.referenceElevation,
                         w.orch.elevationInfo.minElevation, w.orch.interval,
                         SimplifyTolSq, MaxContourVertices)], id), id)
    ELSE Finish(w, id)

\* one chunk of rows of the normal map, its report, and what follows
LoadNormalsChunk(w, id) ==
    LET total == w.terrainMesh.elevationData.h
        to    == ChunkEnd(w.ops[id].val.normals.next, total, NormalChunkRows)
        w1    == Reported([w EXCEPT !.ops[id].val.normals =
                              [state |-> ChunkState(to, total), next |-> to]],
                          id, "GENERATE_NORMALS", to, total)
    IN  IF ChunkState(to, total) = "yield"
        THEN [w1 EXCEPT !.timers = Append(@, [op |-> id, part |-> "normals"])]
        ELSE LoadContoursBegin(w1, id)

\* createFromData after Promise.all, if both tasks are done:
\* onProgress('GENERATE_NORMALS', null) and the first chunk of the normal map
LoadJoin(w, id) ==
    IF w.ops[id].colors.state = "done" /\ w.ops[id].filter.state = "done"
    THEN LoadNormalsChunk(Reported(w, id, "GENERATE_NORMALS", 0, 0), id)
    ELSE w

\* the load up to its first timer: LOAD_COG at 100 %, CREATE_TERRAIN,
\* the geometry, COMPUTE_COLORS, and the first chunk of either task
LoadBegin(w, contoursEnabled) ==
    LET w1 == [w EXCEPT
                 !.terrainMesh.colors = <<>>,
                 !.terrainMesh.twinColors = <<>>,
                 !.terrainMesh.index = w.terrainMesh.originalIndices,
                 !.ops = <<[NewOp("buildTerrain",
                                  [reports |-> <<>>,
                                   normals |-> [state |-> "idle", next |-> 0],
                                   contoursEnabled |-> contoursEnabled], FALSE)
                             EXCEPT !.state = "update"]>>]
        w2 == Reported(Reported(Reported(w1, 1, "LOAD_COG", 1, 1),
                                1, "CREATE_TERRAIN", 0, 0),
                       1, "COMPUTE_COLORS", 0, 0)
    IN  LoadJoin(FilterReported(StartFilter(ColorsReported(StartColors(w2, 1), 1), 1), 1), 1)

\* the oldest callback is a colouring chunk of the load
LoadColorsTimer ==
    /\ timers # <<>>
    /\ Head(timers).part = "colors"
    /\ LET id == Head(timers).op
           w1 == [World EXCEPT !.timers = Tail(@)]
       IN  Becomes(LoadJoin(ColorsReported(
                       ColorsStep(w1, id, ColorsChunk(w1.terrainMesh, w1.ops[id].colors)),
                       id), id))

\* the oldest callback is a filtering chunk of the load
LoadFilterTimer ==
    /\ timers # <<>>
    /\ Head(timers).part = "filter"
    /\ LET id == Head(timers).op
           w1 == [World EXCEPT !.timers = Tail(@)]
       IN  Becomes(LoadJoin(FilterReported(
                       FilterStep(w1, id, FilterChunkStep(w1.terrainMesh, w1.ops[id].filter)),
                       id), id))

\* the oldest callback is a chunk of rows of the normal map
LoadNormalsTimer ==
    /\ timers # <<>>
    /\ Head(timers).part = "normals"
    /\ Becomes(LoadNormalsChunk([World EXCEPT !.timers = Tail(@)], Head(timers).op))

\* the oldest callback resumes the generation of the load
LoadContoursTimer ==
    /\ timers # <<>>
    /\ Head(timers).part = "contours"
    /\ LET id == Head(timers).op
       IN  Becomes(LoadContoursStep(ContoursReported(
                       [World EXCEPT !.timers = Tail(@),
                                     !.ops[id].gen = GenerateContoursResume(@)], id), id))

\* the terrains loaded
LoadSetups == {Pits, RampWithHole, Ramp10}

InitLoad ==
    \E t \in LoadSetups, host \in {"main", "TerrainViewer"}, gpu \in BOOLEAN,
       contoursEnabled \in BOOLEAN :
        Is(LoadBegin(CreatedWith(t, host, gpu,
                                 AnalyzeMin(t.elevationData, t.noDataValue),
                                 AnalyzeMax(t.elevationData, t.noDataValue)),
                     contoursEnabled))

NextLoad ==
    \/ LoadColorsTimer
    \/ LoadFilterTimer
    \/ LoadNormalsTimer
    \/ LoadContoursTimer

SpecLoad == InitLoad /\ [][NextLoad]_vars

(***************************************************************************)
(* The threshold loop of generateContours, one iteration a step.  The call *)
(* is one record of ops; its val holds ref, minElev and interval as        *)
(* passed, depth (the loop variable), thresholds (the list so far) and     *)
(* tick, which alternates with the iterations.  The model keeps the first  *)
(* MaxThresholds entries of the list and follows depth down to             *)
(* -MaxThresholds, where it holds it; the loop itself goes on.             *)
(***************************************************************************)

\* the longest threshold list the model keeps
MaxThresholds == 8

\* reference elevations passed: 0 m to 3 m
LoopRefValues == 0..6

\* minimum elevations passed: 0 m, 1 m
LoopMinValues == {0, 2}

\* intervals passed: -0.5 m, 0 m, 0.5 m, 1 m, 1.5 m
LoopIntervalValues == {-1, 0, 1, 2, 3}

\* generateContours(ref, minElev, interval, ...) up to the loop:
\* depth = interval
ThresholdLoopBegin(ref, minElev, interval) ==
    [NewOp("generateContours",
           [ref |-> ref, minElev |-> minElev, interval |-> interval,
            depth |-> interval, thresholds |-> <<>>, tick |-> 0], FALSE)
     EXCEPT !.state = "thresholds", !.genInterval = interval]

\* the loop's test and, if it passes, its body and its increment
ThresholdLoopStep ==
    \E id \in 1..Len(ops) :
        /\ ops[id].state = "thresholds"
        /\ ops' = [ops EXCEPT ![id] =
              IF @.val.depth > 2 * RoundHalf(@.val.ref - @.val.minElev)
              THEN [@ EXCEPT !.state = "finished"]
              ELSE [@ EXCEPT
                      !.val.thresholds =
                          IF /\ ops[id].val.ref - ops[id].val.depth >= ops[id].val.minElev
                             /\ Len(@) < MaxThresholds
                          THEN Append(@, ops[id].val.ref - ops[id].val.depth)
                          ELSE @,
                      !.val.depth = Max2(@ + ops[id].val.interval, -MaxThresholds),
                      !.val.tick = 1 - @]]
        /\ UNCHANGED <<terrainMesh, orch, overlayLayers, timers, budgetReported>>

InitThresholds ==
    \E ref \in LoopRefValues, minElev \in LoopMinValues,
       interval \in LoopIntervalValues :
        Is([NewWorld(Constructed, "main", Null, Null, Null) EXCEPT
               !.ops = <<ThresholdLoopBegin(ref, minElev, interval)>>])

NextThresholds == ThresholdLoopStep

SpecThresholds == InitThresholds /\ [][NextThresholds]_vars

\* the loop is synchronous code: it takes its next iteration
FairThresholds == SpecThresholds /\ WF_vars(ThresholdLoopStep)

(***************************************************************************)
(* Properties of the orchestrated calls                                    *)
(***************************************************************************)

\* the setReferenceElevation calls issued so far
RefCalls == {i \in 1..Len(ops) : ops[i].kind = "setReferenceElevation"}

\* the one issued last
LatestRefCall == CHOOSE i \in RefCalls : \A j \in RefCalls : j <= i

\* C1: at no time are two of the calls setReferenceElevation,
\* setZExaggeration and generateContours in flight (started, not finished,
\* possibly waiting at a chunk or threshold yield) on the same terrain
C1_Serialized == Cardinality(InFlight(ops)) <= 1

\* a contour generation waits at a threshold yield while another call is
\* in flight
C1_GenerationOverlapped ==
    \E i, j \in InFlight(ops) :
        /\ i # j
        /\ ops[i].state = "contours"
        /\ ops[i].gen.state = "yield"

\* the reference elevations the terrain can have been given
RefsGiven == RefValues \cup {orch.elevationInfo.maxElevation}

\* colour c of vertex i is its colour under one reference elevation and the
\* depth range that belongs to it
CoherentColor(i, c) ==
    \E r \in RefsGiven :
        c = VertexColor(terrainMesh.elevationData, terrainMesh.noDataValue,
                        terrainMesh.gridWidth, terrainMesh.gridHeight, i, r, 0,
                        Max2(1, RoundHalf(r - orch.elevationInfo.minElevation)))

\* the mesh shows reference elevation r: colours, index and depth range
MeshShows(r) ==
    /\ terrainMesh.depthRange
          = <<0, Max2(1, RoundHalf(r - orch.elevationInfo.minElevation))>>
    /\ terrainMesh.colors
          = ComputeVertexColors(terrainMesh.elevationData, terrainMesh.noDataValue,
                terrainMesh.gridWidth, terrainMesh.gridHeight, r,
                <<0, Max2(1, RoundHalf(r - orch.elevationInfo.minElevation))>>)
    /\ terrainMesh.index
          = FilterAboveWaterTriangles(terrainMesh.elevationData,
                terrainMesh.noDataValue, terrainMesh.gridWidth,
                terrainMesh.gridHeight, terrainMesh.originalIndices, r)

\* once every issued setReferenceElevation has completed, the mesh shows
\* the reference elevation requested last
FinalStateShowsLatest ==
    (RefCalls # {} /\ \A i \in RefCalls : ops[i].state = "finished")
        => MeshShows(ops[LatestRefCall].val)

\* C2: setReferenceElevation is one coherent operation: once every issued
\* call has completed, colours, filtered index and depthRange are those of
\* the reference elevation requested last; and no vertex colour, installed
\* or being computed, mixes one reference elevation with the depth range of
\* another, whatever was issued while an earlier call was running
C2_Coherent ==
    /\ FinalStateShowsLatest
    /\ \A i \in DOMAIN terrainMesh.colors : CoherentColor(i, terrainMesh.colors[i])
    /\ \A id \in RefCalls : \A k \in 1..Len(ops[id].colors.buf) :
          CoherentColor(k - 1, ops[id].colors.buf[k])

\* C3: once a contour generation has reported the vertex budget exceeded,
\* no setReferenceElevation issued later regenerates contours, as long as
\* the caller has not changed the contour interval since the report
C3_SkipsWhileExceeded ==
    \A i \in RefCalls : ops[i].blocked => ops[i].genInterval = Null

\* C4: a change of the contour interval issued after the vertex budget was
\* reported exceeded generates contours again, with the new interval
C4_IntervalChangeRegenerates ==
    \A i \in 1..Len(ops) :
        (ops[i].kind = "setContourInterval" /\ ops[i].blocked)
            => ops[i].genInterval = ops[i].val

Triangles(index) ==
    [t \in 1..(Len(index) \div 3) |->
        <<index[3 * t - 2], index[3 * t - 1], index[3 * t]>>]

\* a is b with some elements left out
RECURSIVE IsSubsequence(_, _)
IsSubsequence(a, b) ==
    IF a = <<>> THEN TRUE
    ELSE IF b = <<>> THEN FALSE
    ELSE IF Head(a) = Head(b) THEN IsSubsequence(Tail(a), Tail(b))
    ELSE IsSubsequence(a, Tail(b))

\* C9: after any build and any reference elevation updates the filtered
\* index buffer is an order-preserving subsequence of whole triangles of
\* the original one: its length is a multiple of 3, every index is less
\* than vertexCount, no triangle is split or reordered
C9_TriangleSubsequence ==
    /\ Len(terrainMesh.index) % 3 = 0
    /\ \A k \in 1..Len(terrainMesh.index) :
          /\ terrainMesh.index[k] >= 0
          /\ terrainMesh.index[k]
                < VertexCount(terrainMesh.gridWidth, terrainMesh.gridHeight)
    /\ IsSubsequence(Triangles(terrainMesh.index),
                     Triangles(terrainMesh.originalIndices))

\* an update has finished that kept some triangles and dropped others
C9_PartlyFiltered ==
    /\ \E i \in RefCalls : ops[i].state = "finished"
    /\ Len(terrainMesh.index) > 0
    /\ Len(terrainMesh.index) < Len(terrainMesh.originalIndices)

\* triangle t (from 0) of the original index buffer is in the filtered one
TrianglePresent(t) ==
    \E j \in 0..(Len(terrainMesh.index) \div 3 - 1) :
        \A k \in 1..3 :
            terrainMesh.index[3 * j + k] = terrainMesh.originalIndices[3 * t + k]

\* the mesh fields the filter reads
FilterInput(m) ==
    [elevationData |-> m.elevationData, noDataValue |-> m.noDataValue,
     gridWidth |-> m.gridWidth, gridHeight |-> m.gridHeight,
     referenceElevation |-> m.referenceElevation]

\* the terrains the builds start from
BuiltTerrains == {s[1] : s \in Setups \cup ContourSetups}

\* those fields of every mesh a build makes, at every reference elevation
\* an analysis or an update can give it
FilterInputs ==
    {[elevationData |-> t.elevationData, noDataValue |-> t.noDataValue,
      gridWidth |-> t.gridWidth, gridHeight |-> t.gridHeight,
      referenceElevation |-> ref] :
        t \in BuiltTerrains,
        ref \in RefValues
                 \cup {AnalyzeMax(o.elevationData, o.noDataValue) : o \in BuiltTerrains}
                 \cup {AnalyzeMin(o.elevationData, o.noDataValue) : o \in BuiltTerrains}}

\* "nodata" if a vertex of mesh m is classified NoData, else "below" if it
\* samples strictly below the reference elevation, else "above"; sample is
\* the bilinear sample times the product of the uv denominators, or NaN
SampleStanding(m, nearNoData, sample) ==
    IF nearNoData \/ sample = NaN THEN "nodata"
    ELSE IF sample < m.referenceElevation * (m.gridWidth - 1) * (m.gridHeight - 1)
    THEN "below"
    ELSE "above"

VertexStanding(m, v) ==
    SampleStanding(m,
        HasNearbyNoData(m.elevationData, m.noDataValue,
            UvX(v, m.gridWidth, m.gridHeight)[1],
            UvX(v, m.gridWidth, m.gridHeight)[2],
            FlipV(UvY(v, m.gridWidth, m.gridHeight))[1],
            FlipV(UvY(v, m.gridWidth, m.gridHeight))[2]),
        SampleElevation(m.elevationData, m.noDataValue,
            UvX(v, m.gridWidth, m.gridHeight)[1],
            UvX(v, m.gridWidth, m.gridHeight)[2],
            FlipV(UvY(v, m.gridWidth, m.gridHeight))[1],
            FlipV(UvY(v, m.gridWidth, m.gridHeight))[2]))

\* the standings of vertices v, v + 1, ... of mesh m in order
RECURSIVE StandingsFrom(_, _)
StandingsFrom(m, v) ==
    IF v >= VertexCount(m.gridWidth, m.gridHeight)
    THEN <<>>
    ELSE <<VertexStanding(m, v)>> \o StandingsFrom(m, v + 1)

\* the standing of every vertex, that of vertex v at v + 1, for each mesh
\* of FilterInputs
StandingsOf == {[mesh |-> m, standings |-> StandingsFrom(m, 0)] : m \in FilterInputs}

\* the standings of the vertices of terrainMesh
Standings ==
    (CHOOSE r \in StandingsOf : r.mesh = FilterInput(terrainMesh)).standings

\* by the standings st, triangle t (from 0) of the original index buffer has
\* no NoData vertex and a vertex below the reference
ValidAndBelow(st, t) ==
    /\ \A k \in 1..3 : st[terrainMesh.originalIndices[3 * t + k] + 1] # "nodata"
    /\ \E k \in 1..3 : st[terrainMesh.originalIndices[3 * t + k] + 1] = "below"

\* the triangles of the original index buffer the standings st keep
KeptBy(st) ==
    \A t \in 0..(Len(terrainMesh.originalIndices) \div 3 - 1) :
        TrianglePresent(t) <=> ValidAndBelow(st, t)

\* no filtering pass is under way
FilterQuiet == \A i \in 1..Len(ops) : ops[i].filter.state \in {"idle", "done"}

\* every raster cell is valid and below (at or above) the reference
AllBelowReference ==
    \A k \in 1..Len(terrainMesh.elevationData.d) :
        /\ ~IsNoData(terrainMesh.elevationData.d[k], terrainMesh.noDataValue)
        /\ terrainMesh.elevationData.d[k] < terrainMesh.referenceElevation

AllAtOrAboveReference ==
    \A k \in 1..Len(terrainMesh.elevationData.d) :
        /\ ~IsNoData(terrainMesh.elevationData.d[k], terrainMesh.noDataValue)
        /\ terrainMesh.elevationData.d[k] >= terrainMesh.referenceElevation

\* C10: once filtering has run, a triangle of the original index buffer is
\* in the filtered buffer if and only if none of its three vertices is
\* classified NoData and at least one samples strictly below
\* referenceElevation; a grid entirely below the reference loses no
\* triangle, a grid entirely at or above it loses all
C10_KeptIffBelowAndValid ==
    FilterQuiet =>
        /\ KeptBy(Standings)
        /\ AllBelowReference => terrainMesh.index = terrainMesh.originalIndices
        /\ AllAtOrAboveReference => terrainMesh.index = <<>>

\* an update of the flat grid to a reference above it has finished and the
\* index buffer is whole again, after the build had emptied it
C10_FlatBelowKeepsAll ==
    /\ \E i \in RefCalls : ops[i].state = "finished"
    /\ FilterQuiet
    /\ AllBelowReference
    /\ \A k \in 1..Len(terrainMesh.elevationData.d) :
          terrainMesh.elevationData.d[k] = terrainMesh.elevationData.d[1]
    /\ terrainMesh.index = terrainMesh.originalIndices


(***************************************************************************)
(* Properties of generateContours                                          *)
(***************************************************************************)

\* the direct generateContours calls that have returned
Returned ==
    {i \in 1..Len(ops) : ops[i].kind = "generateContours" /\ ops[i].gen.state = "done"}

\* and those that returned aborted
Aborted == {i \in Returned : ops[i].gen.result.aborted = "true"}

\* C5: when generateContours aborts on the vertex budget, the result has
\* aborted = true, and segments and vertexCount are the work done up to
\* the abort: segments holds 3 * vertexCount floats, the segments emitted
\* for the thresholds processed
C5_AbortedResultHoldsWork ==
    \A i \in Aborted :
        /\ FloatCount(ops[i].gen.result.segments) = 3 * ops[i].gen.result.vertexCount
        /\ ops[i].gen.result.segments = ops[i].gen.segmentChunks

\* a call has returned aborted after emitting segments
C5_AbortedWithWork ==
    \E i \in Aborted : Len(ops[i].gen.segmentChunks) > 0

\* what run g pushes for its thresholds 0..k, each processed in full
RECURSIVE ChunksThrough(_, _)
ChunksThrough(g, k) ==
    IF k < 0 THEN <<>>
    ELSE ChunksThrough(g, k - 1) \o Emitted([g EXCEPT !.ti = k])

\* n vertices are more than the budget of run g allows
Exceeds(g, n) == g.maxVertices > 0 /\ n > g.maxVertices

\* C6: the abort is taken only at a threshold boundary.  A run that waits
\* has processed its thresholds 0..ti in full and is within the budget; a
\* run that aborted has processed thresholds 0..ti in full, the last of
\* them took the total over the budget, and nothing of a later threshold
\* was started; a run that completed was never over the budget
C6_AbortAtThresholdBoundary ==
    \A i \in 1..Len(ops) :
        ops[i].kind = "generateContours" =>
            /\ ops[i].gen.state = "yield" =>
                  /\ ops[i].gen.segmentChunks = ChunksThrough(ops[i].gen, ops[i].gen.ti)
                  /\ ~Exceeds(ops[i].gen, 2 * Len(ops[i].gen.segmentChunks))
            /\ i \in Aborted =>
                  /\ ops[i].gen.segmentChunks = ChunksThrough(ops[i].gen, ops[i].gen.ti)
                  /\ ops[i].gen.totalVertices = 2 * Len(ops[i].gen.segmentChunks)
                  /\ Exceeds(ops[i].gen, ops[i].gen.totalVertices)
                  /\ ~Exceeds(ops[i].gen,
                              2 * Len(ChunksThrough(ops[i].gen, ops[i].gen.ti - 1)))
            /\ i \in Returned \ Aborted =>
                  /\ ops[i].gen.segmentChunks
                        = ChunksThrough(ops[i].gen, Len(ops[i].gen.thresholds) - 1)
                  /\ ~Exceeds(ops[i].gen, ops[i].gen.totalVertices)

\* a run aborted at a threshold after its first, with thresholds left
C6_AbortedMidway ==
    \E i \in Aborted :
        /\ ops[i].gen.ti > 0
        /\ ops[i].gen.ti + 1 < Len(ops[i].gen.thresholds)

\* the vertex count of run g without a budget
UncappedTotal(g) ==
    GenerateContoursRun(
        EnterLoop([g EXCEPT !.state = "run", !.ti = 0, !.maxVertices = 0,
                            !.segmentChunks = <<>>, !.totalVertices = 0,
                            !.result = IdleRun.result])).result.vertexCount

\* C7 as stated: whenever the un-capped output has more than maxVertices
\* (> 0) vertices, generateContours returns aborted = true and a
\* vertexCount strictly less than the un-capped total
C7_AbortedStrictlyLess ==
    \A i \in Returned :
        (ops[i].gen.maxVertices > 0
            /\ UncappedTotal(ops[i].gen) > ops[i].gen.maxVertices) =>
            /\ ops[i].gen.result.aborted = "true"
            /\ ops[i].gen.result.vertexCount < UncappedTotal(ops[i].gen)

\* C7 amended: whenever the un-capped output has more than maxVertices
\* (> 0) vertices, generateContours returns aborted = true and a
\* vertexCount above maxVertices and at most the un-capped total
C7_AbortedAtMostTotal ==
    \A i \in Returned :
        (ops[i].gen.maxVertices > 0
            /\ UncappedTotal(ops[i].gen) > ops[i].gen.maxVertices) =>
            /\ ops[i].gen.result.aborted = "true"
            /\ ops[i].gen.result.vertexCount > ops[i].gen.maxVertices
            /\ ops[i].gen.result.vertexCount <= UncappedTotal(ops[i].gen)

\* a capped call returned aborted with fewer vertices than the un-capped total
C7_AbortedBelowTotal ==
    \E i \in Aborted :
        /\ ops[i].gen.maxVertices > 0
        /\ ops[i].gen.result.vertexCount < UncappedTotal(ops[i].gen)

(***************************************************************************)
(* Properties of the filtered index buffer across updates                  *)
(***************************************************************************)

\* the index buffer a first-time filter of mesh m leaves
FirstFilterOf(m) ==
    FilterAboveWaterTriangles(m.elevationData, m.noDataValue,
        m.gridWidth, m.gridHeight, PlaneIndex(m.gridWidth, m.gridHeight),
        m.referenceElevation)

\* and that buffer for each mesh of FilterInputs
FirstFilters == {[mesh |-> m, index |-> FirstFilterOf(m)] : m \in FilterInputs}

\* the index buffer the build's filtering leaves at reference elevation ref
FirstFilter(ref) ==
    (CHOOSE r \in FirstFilters :
        r.mesh = FilterInput([terrainMesh EXCEPT !.referenceElevation = ref])).index

\* C11: the original index buffer stays the one the grid build made,
\* filtering never changes it, and once no filtering is under way the
\* filtered buffer is the one a first-time filter at the current reference
\* elevation produces, whatever reference elevations were set before
C11_FilterFromOriginal ==
    /\ terrainMesh.originalIndices
          = PlaneIndex(terrainMesh.gridWidth, terrainMesh.gridHeight)
    /\ FilterQuiet => terrainMesh.index = FirstFilter(terrainMesh.referenceElevation)

\* two updates have finished, the later one to a higher reference elevation,
\* and triangles the earlier one dropped are back
C11_TrianglesReappear ==
    /\ FilterQuiet
    /\ \E i \in RefCalls :
          /\ i < LatestRefCall
          /\ ops[i].state = "finished"
          /\ ops[LatestRefCall].state = "finished"
          /\ ops[i].val < ops[LatestRefCall].val
          /\ Len(FirstFilter(ops[i].val)) < Len(terrainMesh.index)

(***************************************************************************)
(* Properties of the sampler                                               *)
(***************************************************************************)

\* the direct calls of _sampleElevation
SampleCalls == {i \in 1..Len(ops) : ops[i].kind = "_sampleElevation"}

\* the raster samples at the four cells around (u, v) of raster e
SurroundingSamples(e, u, v) ==
    LET x0 == (u[1] * (e.w - 1)) \div u[2]
        y0 == (v[1] * (e.h - 1)) \div v[2]
    IN  {e.d[y * e.w + x + 1] :
            x \in {x0, Min2(x0 + 1, e.w - 1)}, y \in {y0, Min2(y0 + 1, e.h - 1)}}

\* result, a sample times scale, blends only valid samples of the set around
BlendOfValid(result, around, noData, scale) ==
    /\ \A a \in around : ~IsNoData(a, noData)
    /\ \E lo \in around, hi \in around : lo * scale <= result /\ result <= hi * scale

\* C12: a bilinear sample is NaN if and only if one of the four samples
\* around it is NoData (non-finite, at least 1e5, or the noDataValue);
\* a result that is not NaN lies between valid samples only
C12_NaNIffNoDataAround ==
    \A i \in SampleCalls :
        LET around == SurroundingSamples(terrainMesh.elevationData,
                                         ops[i].val.u, ops[i].val.v)
        IN  /\ (ops[i].val.result = NaN)
                  <=> (\E a \in around : IsNoData(a, terrainMesh.noDataValue))
            /\ ops[i].val.result # NaN =>
                  BlendOfValid(ops[i].val.result, around, terrainMesh.noDataValue,
                               ops[i].val.u[2] * ops[i].val.v[2])

\* a sample strictly inside a cell came back NaN although the cell's
\* first corner is valid: another corner is NoData
C12_NaNFromOneCorner ==
    \E i \in SampleCalls :
        /\ ops[i].val.result = NaN
        /\ (ops[i].val.u[1] * (terrainMesh.elevationData.w - 1)) % ops[i].val.u[2] # 0
        /\ GetElevationAt(terrainMesh.elevationData, terrainMesh.noDataValue,
              (ops[i].val.u[1] * (terrainMesh.elevationData.w - 1)) \div ops[i].val.u[2],
              (ops[i].val.v[1] * (terrainMesh.elevationData.h - 1)) \div ops[i].val.v[2])
             # NaN

(***************************************************************************)
(* Properties of the emitted buffers on rasters with NoData                *)
(***************************************************************************)

\* the sample of the contour grid at gx, gy
ContourGridSample(gx, gy) ==
    SampleElevation(terrainMesh.elevationData, terrainMesh.noDataValue,
                    gx, terrainMesh.gridWidth - 1, gy, terrainMesh.gridHeight - 1)

\* the coordinate f = <<n, d>> is a number
FiniteCoord(f) == f[2] > 0

\* the point p is a number in both coordinates, lies on a line of the
\* contour grid, and the grid samples at the ends of the grid edge it lies
\* on (or the grid sample it coincides with) are valid
FromValidSamples(p) ==
    /\ FiniteCoord(p.x) /\ FiniteCoord(p.z)
    /\ p.x[2] = 1 \/ p.z[2] = 1
    /\ ContourGridSample(p.x[1] \div p.x[2], p.z[1] \div p.z[2]) # NaN
    /\ ContourGridSample((p.x[1] + p.x[2] - 1) \div p.x[2],
                         (p.z[1] + p.z[2] - 1) \div p.z[2]) # NaN

\* every segment of the sequence segs has a height that is a number and
\* two ends from valid samples
SegmentsFinite(segs) ==
    \A k \in 1..Len(segs) :
        /\ FiniteCoord(segs[k].y) /\ FiniteCoord(segs[k].oy)
        /\ FromValidSamples(segs[k].p0)
        /\ FromValidSamples(segs[k].p1)

\* the colour c is the gray or a position in the colormap
ColorFinite(c) == c.gray \/ (c.d > 0 /\ 0 <= c.n /\ c.n <= 255 * c.d)

RampCalls ==
    {i \in 1..Len(ops) :
        /\ ops[i].kind = "generateContours" /\ ops[i].genInterval = 20
        /\ ops[i].gen.ref = 200
        /\ terrainMesh.elevationData = Ramp10.elevationData
        /\ orch.elevationInfo.minElevation = 0}

\* the segments of the sequence segs at threshold th of the run g
SegmentsAt(segs, g, th) ==
    {k \in 1..Len(segs) : segs[k].y = Frac((th - g.ref) * g.heightScale, 1)}

\* the returned contour of threshold th is non-empty
NonEmptyContour(g, th) == SegmentsAt(g.result.segments, g, th) # {}

ReturnedEmpty == {i \in Returned : ops[i].gen.thresholds = <<>>}

\* C15: when the derived threshold list is empty, generateContours
\* returns a result with vertexCount = 0, empty segments and
\* aborted = false
C15_EmptyResultNotAborted ==
    \A i \in ReturnedEmpty :
        /\ ops[i].gen.result.vertexCount = 0
        /\ ops[i].gen.result.segments = <<>>
        /\ ops[i].gen.result.aborted = "false"

\* a call with an interval larger than the elevation range has returned
\* without thresholds, zero vertices and no segments
C15_EmptyReturned ==
    \E i \in ReturnedEmpty :
        /\ ops[i].genInterval > 2 * RoundHalf(ops[i].gen.ref - orch.elevationInfo.minElevation)
        /\ ops[i].gen.result.vertexCount = 0
        /\ ops[i].gen.result.segments = <<>>

(***************************************************************************)
(* Properties of the calls before the elevation grid is set                *)
(***************************************************************************)

\* C16: every mesh operation called before the elevation grid is set
\* raises an error
C16_UnsetCallsRaise ==
    terrainMesh.elevationData = NullData =>
        \A i \in 1..Len(ops) : ops[i].state = "threw"

\* before the elevation grid is set generateContours has returned null
\* and _sampleElevation has returned 0
C16_SilentReturns ==
    /\ terrainMesh.elevationData = NullData
    /\ \E i \in 1..Len(ops) :
          /\ ops[i].kind = "generateContours"
          /\ ops[i].state = "finished" /\ ops[i].gen.state = "null"
    /\ \E i \in 1..Len(ops) :
          /\ ops[i].kind = "_sampleElevation"
          /\ ops[i].state = "finished" /\ ops[i].val.result = 0

(***************************************************************************)
(* Properties of the raw segment graph                                     *)
(***************************************************************************)

\* the segment ends <<k, side>> of the sequence segs that lie at the point
\* p at the height y
EndsAt(segs, y, p) ==
    {e \in (1..Len(segs)) \X {0, 1} :
        /\ segs[e[1]].y = y
        /\ (IF e[2] = 0 THEN segs[e[1]].p0 ELSE segs[e[1]].p1) = p}

\* the largest number of segment ends of segs that share one endpoint
\* within one threshold is at most n
DegreeAtMost(segs, n) ==
    \A k \in 1..Len(segs) :
        /\ Cardinality(EndsAt(segs, segs[k].y, segs[k].p0)) <= n
        /\ Cardinality(EndsAt(segs, segs[k].y, segs[k].p1)) <= n

\* the calls of generateContours without simplification
RawCalls ==
    {i \in 1..Len(ops) :
        ops[i].kind = "generateContours" /\ ops[i].gen.tolSq = <<0, 1>>}

\* C17: in the raw segment output every endpoint, by its exact x and z, is
\* shared by at most 2 segment ends of its threshold
C17_DegreeAtMostTwo ==
    \A i \in RawCalls : DegreeAtMost(ops[i].gen.segmentChunks, 2)

\* a raw run has returned segments, more than two of their ends at one
\* point
C17_JunctionEmitted ==
    \E i \in RawCalls :
        /\ ops[i].gen.state = "done"
        /\ ops[i].gen.result.aborted = "false"
        /\ ~DegreeAtMost(ops[i].gen.result.segments, 2)

(***************************************************************************)
(* Properties of the planned grid                                          *)
(***************************************************************************)

\* the calls of _calculateGridDimensions
GridCalls == {i \in 1..Len(ops) : ops[i].kind = "_calculateGridDimensions"}

\* the planned grid of call i lies between 2 and the raster's size
WithinRaster(i) ==
    /\ 2 <= ops[i].val.result.gridWidth
    /\ ops[i].val.result.gridWidth <= ops[i].val.elevationWidth
    /\ 2 <= ops[i].val.result.gridHeight
    /\ ops[i].val.result.gridHeight <= ops[i].val.elevationHeight

RasterAllNoData ==
    \A k \in 1..Len(terrainMesh.elevationData.d) :
        IsNoData(terrainMesh.elevationData.d[k], terrainMesh.noDataValue)

\* C19: after the build of an all-NoData raster the mesh has its planned
\* grid of vertices, every vertex colour is the neutral gray and the
\* filtered index buffer is empty, while the original index buffer holds
\* all triangles
C19_AllNoDataGrayAndEmpty ==
    (terrainMesh.elevationData # NullData /\ RasterAllNoData) =>
        /\ DOMAIN terrainMesh.colors
              = 0..(VertexCount(terrainMesh.gridWidth, terrainMesh.gridHeight) - 1)
        /\ \A v \in DOMAIN terrainMesh.colors : terrainMesh.colors[v] = Gray
        /\ terrainMesh.index = <<>>
        /\ terrainMesh.originalIndices
              = PlaneIndex(terrainMesh.gridWidth, terrainMesh.gridHeight)

\* an all-NoData raster of 3 x 2 samples has been built on the CPU path
\* with 6 vertices and 4 triangles, and a sample of it has returned NaN
C19_AllNoDataBuilt ==
    /\ terrainMesh.elevationData # NullData /\ RasterAllNoData
    /\ ~terrainMesh.useGPUDisplacement
    /\ VertexCount(terrainMesh.gridWidth, terrainMesh.gridHeight) = 6
    /\ Len(terrainMesh.originalIndices) = 12
    /\ \E i \in 1..Len(ops) :
          ops[i].kind = "_sampleElevation" /\ ops[i].val.result = NaN

(***************************************************************************)
(* Properties shared by the GPU and the CPU-fallback path                  *)
(***************************************************************************)

\* no colouring and no filtering is under way
UpdateQuiet ==
    \A i \in 1..Len(ops) :
        /\ ops[i].colors.state \in {"idle", "done"}
        /\ ops[i].filter.state \in {"idle", "done"}

\* the colour buffer of the mesh's grid at its reference elevation and
\* depth range
ColorsOfConfig ==
    ComputeVertexColors(terrainMesh.elevationData, terrainMesh.noDataValue,
                        terrainMesh.gridWidth, terrainMesh.gridHeight,
                        terrainMesh.referenceElevation, terrainMesh.depthRange)

\* the call issued last, if any, has returned
LastCallReturned == ops = <<>> \/ ops[Len(ops)].state = "finished"

\* C20: after the build and after every setReferenceElevation and
\* setZExaggeration that has returned, the mesh holds the vertex colours
\* that the GPU path holds after the same calls (the visible triangles
\* are written by the same filtering on both paths)
C20_FallbackMatchesGPU ==
    LastCallReturned => terrainMesh.colors = terrainMesh.twinColors

\* C20, for the states in which no colouring or filtering is under way:
\* the vertex colours and the visible triangles are those of the
\* elevation grid, the reference elevation and the depth range alone,
\* whichever displacement path the mesh uses and whatever its
\* exaggeration, and so the same on both paths
C20_SameColorsAndTriangles ==
    UpdateQuiet =>
        /\ \A v \in DOMAIN ColorsOfConfig : terrainMesh.colors[v] = ColorsOfConfig[v]
        /\ DOMAIN terrainMesh.colors = DOMAIN ColorsOfConfig
        /\ terrainMesh.index = FirstFilter(terrainMesh.referenceElevation)
        /\ terrainMesh.colors = terrainMesh.twinColors

\* on the CPU-fallback path a setReferenceElevation below the maximum and
\* a setZExaggeration have finished: the vertices are displaced, some
\* triangles are hidden, some vertices coloured, and the colours are those
\* of the GPU path
C20_FallbackUpdated ==
    /\ ~terrainMesh.useGPUDisplacement
    /\ UpdateQuiet
    /\ terrainMesh.colors = terrainMesh.twinColors
    /\ \E i \in RefCalls : ops[i].state = "finished"
    /\ \E i \in 1..Len(ops) : ops[i].kind = "setZExaggeration"
    /\ terrainMesh.zExaggeration # DEFAULT_CONFIG.defaultZExaggeration
    /\ terrainMesh.referenceElevation < orch.elevationInfo.maxElevation
    /\ Len(terrainMesh.index) < Len(terrainMesh.originalIndices)
    /\ \E v \in DOMAIN terrainMesh.colors : ~terrainMesh.colors[v].gray
    /\ \E v \in DOMAIN terrainMesh.positionsY : terrainMesh.positionsY[v] # 0

(***************************************************************************)
(* Properties of the two concurrent tasks                                  *)
(***************************************************************************)

\* the direct updateReferenceElevation calls
UpdateCalls == {i \in 1..Len(ops) : ops[i].kind = "updateReferenceElevation"}

\* the colours of vertices 0..n-1 a colouring run alone produces
ColorsAlone(n) ==
    [k \in 1..n |->
        VertexColor(terrainMesh.elevationData, terrainMesh.noDataValue,
                    terrainMesh.gridWidth, terrainMesh.gridHeight, k - 1,
                    terrainMesh.referenceElevation,
                    terrainMesh.depthRange[1], terrainMesh.depthRange[2])]

\* the indices a filtering run alone has pushed after n triangles
FilterAlone(n) ==
    FilterChunk(PlaneIndex(terrainMesh.gridWidth, terrainMesh.gridHeight),
                ClassifyVertices(terrainMesh.elevationData, terrainMesh.noDataValue,
                                 terrainMesh.gridWidth, terrainMesh.gridHeight,
                                 terrainMesh.referenceElevation),
                <<>>, 0, n)

\* C21: the colouring and the filtering of one updateReferenceElevation
\* write disjoint data and neither reads what the other writes: under
\* every interleaving of their chunks each task holds, at each of its
\* yields, what it would hold run alone, and once both are done the colour
\* buffer and the index buffer are those of running one after the other
C21_InterleavingAsSequential ==
    \A i \in UpdateCalls :
        /\ ops[i].colors.state \in {"yield", "done"} =>
              ops[i].colors.buf = ColorsAlone(ops[i].colors.next)
        /\ ops[i].filter.state \in {"yield", "done"} =>
              ops[i].filter.newIndices = FilterAlone(ops[i].filter.next)
        /\ (i = Len(ops) /\ ops[i].state = "finished") =>
              /\ terrainMesh.colors
                    = ColorAttribute(ColorsAlone(VertexCount(terrainMesh.gridWidth,
                                                             terrainMesh.gridHeight)))
              /\ terrainMesh.index
                    = FilterAlone(Len(terrainMesh.originalIndices) \div 3)

\* a second update, to another reference elevation, is under way: its
\* filtering is done and has installed an index buffer with some triangles
\* hidden, while its colouring still waits for its last chunk
C21_FilterDoneColorsWaiting ==
    /\ Len(ops) = 2
    /\ ops[1].state = "finished"
    /\ ops[1].val # ops[2].val
    /\ ops[2].kind = "updateReferenceElevation"
    /\ ops[2].filter.state = "done"
    /\ ops[2].colors.state = "yield"
    /\ Len(terrainMesh.index) > 0
    /\ Len(terrainMesh.index) < Len(terrainMesh.originalIndices)

(***************************************************************************)
(* Properties of the normal-map stage                                      *)
(***************************************************************************)

\* the builds whose grid was swapped for the full-resolution one
Swapped ==
    {i \in 1..Len(ops) : ops[i].kind = "createFromData" /\ ops[i].val.saved # NullData}

\* C22: when the higher-resolution grid is swapped in for the normal
\* generation, then in every outcome the generation of the catch block, if
\* it runs, reads the mesh-resolution grid, and once createFromData has
\* returned the elevation grid of the sampler, with its width and height,
\* is the mesh-resolution one that was in place before the swap
C22_MeshGridRestored ==
    \A i \in Swapped :
        /\ ops[i].val.fallbackFrom \in {NullData, ops[i].val.meshData}
        /\ ops[i].val.stage = "returned" =>
              terrainMesh.elevationData = ops[i].val.meshData

\* the grid was swapped, the generation on it threw, the generation of the
\* catch block resolved and createFromData returned; a caller has sampled
\* the mesh
C22_BuiltAfterGenerationFailed ==
    /\ \E i \in Swapped :
          /\ ops[i].val.fallbackFrom # NullData
          /\ ops[i].val.stage = "returned"
    /\ \E j \in 1..Len(ops) : ops[j].kind = "_sampleElevation"

(***************************************************************************)
(* Properties of the simplification                                        *)
(***************************************************************************)

\* the direct calls of _simplifyPolyline2D
SimplifyCalls == {i \in 1..Len(ops) : ops[i].kind = "_simplifyPolyline2D"}

\* C23: for every input polyline, simplifying with tolerance 0 is the
\* identity: the output is the input point sequence, unchanged in length
\* and order
C23_ZeroToleranceIdentity ==
    \A i \in SimplifyCalls :
        ops[i].val.tolSq = <<0, 1>> =>
            /\ Len(ops[i].val.result) = Len(ops[i].val.points)
            /\ \A k \in 1..Len(ops[i].val.points) :
                  ops[i].val.result[k] = ops[i].val.points[k]

\* a polyline of three distinct points on one line was simplified with
\* tolerance 0 and came back without its middle point
C23_CollinearPointDropped ==
    \E i \in SimplifyCalls :
        /\ ops[i].val.tolSq = <<0, 1>>
        /\ Len(ops[i].val.points) = 3
        /\ ops[i].val.points[1] # ops[i].val.points[2]
        /\ ops[i].val.points[2] # ops[i].val.points[3]
        /\ ops[i].val.points[1] # ops[i].val.points[3]
        /\ ops[i].val.result = <<ops[i].val.points[1], ops[i].val.points[3]>>

(***************************************************************************)
(* Properties of the simplified contour output                             *)
(***************************************************************************)

\* the raw segment output of run g: the same thresholds over the same grid,
\* without simplification and without a vertex budget
RawSegments(g) ==
    GenerateContoursRun(EnterLoop(
        [g EXCEPT !.state = "run", !.ti = 0, !.tolSq = <<0, 1>>,
                  !.maxVertices = 0, !.segmentChunks = <<>>,
                  !.totalVertices = 0,
                  !.result = [segments |-> <<>>, vertexCount |-> 0,
                              aborted |-> "undefined"]])).result.segments

\* the point p at height y with normal offset oy is an end of a segment of
\* raw
RawEnd(raw, p, y, oy) ==
    \E k \in 1..Len(raw) :
        /\ raw[k].y = y /\ raw[k].oy = oy
        /\ raw[k].p0 = p \/ raw[k].p1 = p

\* the generateContours calls that returned simplified segments
SimplifiedCalls ==
    {i \in 1..Len(ops) :
        /\ ops[i].kind = "generateContours" /\ ops[i].state = "finished"
        /\ ops[i].gen.state = "done" /\ RGt(ops[i].gen.tolSq, <<0, 1>>)
        /\ ops[i].gen.result.segments # <<>>}

\* C24: chaining and Douglas-Peucker simplification act on the XZ plane
\* only: every contour point retained in the simplified output has the Y
\* coordinate (threshold height plus its normal offset) that the point
\* had in the raw segment output
C24_SimplifiedKeepsY ==
    \A i \in SimplifiedCalls :
        \A k \in 1..Len(ops[i].gen.result.segments) :
            /\ RawEnd(RawSegments(ops[i].gen), ops[i].gen.result.segments[k].p0,
                      ops[i].gen.result.segments[k].y,
                      ops[i].gen.result.segments[k].oy)
            /\ RawEnd(RawSegments(ops[i].gen), ops[i].gen.result.segments[k].p1,
                      ops[i].gen.result.segments[k].y,
                      ops[i].gen.result.segments[k].oy)

\* a simplified segment ends at a point of the raw output, at the raw
\* threshold height, but without the normal offset the raw point carries
C24_OffsetLost ==
    \E i \in SimplifiedCalls :
        \E k \in 1..Len(ops[i].gen.result.segments) :
            /\ ops[i].gen.result.segments[k].oy = <<0, 1>>
            /\ RawEnd(RawSegments(ops[i].gen), ops[i].gen.result.segments[k].p0,
                      ops[i].gen.result.segments[k].y, <<1, 1>>)
            /\ ~RawEnd(RawSegments(ops[i].gen), ops[i].gen.result.segments[k].p0,
                       ops[i].gen.result.segments[k].y, <<0, 1>>)

(***************************************************************************)
(* Properties of overlapping contour generations                           *)
(***************************************************************************)

\* what generateContours returns for the interval on the terrain as it
\* is, under the exaggeration zExag, called as the orchestrators call it
ResultAt(interval, zExag) ==
    GenerateContoursRun(
        GenerateContoursStart(
            terrainMesh.elevationData, terrainMesh.noDataValue,
            terrainMesh.gridWidth, terrainMesh.gridHeight, zExag,
            orch.elevationInfo.referenceElevation,
            orch.elevationInfo.minElevation, interval,
            SimplifyTolSq, MaxContourVertices)).result

\* the same under the exaggeration the terrain has
ResultNow(interval) == ResultAt(interval, terrainMesh.zExaggeration)

\* only the contour interval was changed so far, so that reference
\* elevation and exaggeration are those every generation started with
OnlyIntervalChanges == \A k \in 1..Len(ops) : ops[k].kind = "setContourInterval"

\* generation i waits at a threshold yield, the generation of the later
\* call j, started meanwhile, has returned, and this step ends i
EarlierEndsAfterLater(i, j) ==
    /\ OnlyIntervalChanges
    /\ i < j /\ j = Len(ops)
    /\ ops[i].state = "contours"
    /\ ops[j].state = "finished" /\ ops[j].genInterval # Null
    /\ Len(ops') = Len(ops)
    /\ \A k \in 1..Len(ops') : ops'[k].state = "finished"

\* what the orchestrator holds is what the result leaves behind
HoldsResult(o, overlay, result) ==
    /\ o.lastContourResult = Kept(result)
    /\ result.aborted = "true" => o.contoursExceedLimit
    /\ (result.aborted # "true" /\ result.vertexCount > 0) =>
          /\ ~o.contoursExceedLimit
          /\ overlay.contours = result.segments

\* C25: if a second contour generation is started while an earlier one is
\* suspended at a threshold yield, then after both have finished the
\* displayed contour geometry, the stored last result and the
\* budget-exceeded flag are those of the later-started request, never
\* those of the earlier one
C25_LaterRequestWins ==
    [][\A i, j \in 1..Len(ops) :
          EarlierEndsAfterLater(i, j) =>
              HoldsResult(orch', overlayLayers', ResultNow(ops[j].val))]_vars

\* two interval changes have both finished; the second asked for another
\* interval, and what is held is the result of the first
C25_EarlierRequestShown ==
    /\ Len(ops) = 2 /\ OnlyIntervalChanges
    /\ ops[1].state = "finished" /\ ops[2].state = "finished"
    /\ ops[1].genInterval # Null /\ ops[2].genInterval # Null
    /\ ops[1].val # ops[2].val
    /\ HoldsResult(orch, overlayLayers, ResultNow(ops[1].val))
    /\ ~HoldsResult(orch, overlayLayers, ResultNow(ops[2].val))

(***************************************************************************)
(* Properties of the exaggeration of the displayed contours                *)
(***************************************************************************)

\* the threshold heights of a segment list, in order
Ys(segments) == [k \in 1..Len(segments) |-> segments[k].y]

\* only the contour interval and the exaggeration were changed so far, so
\* that every generation ran with the reference elevation of the load
OnlyIntervalAndZChanges ==
    \A k \in 1..Len(ops) : ops[k].kind \in {"setContourInterval", "setZExaggeration"}

\* the displayed contours have the threshold heights of a generation
\* under the exaggeration zExag
DisplayedAt(zExag) ==
    \E interval \in IntervalValues \cup {InitialInterval} :
        Ys(overlayLayers.contours) = Ys(ResultAt(interval, zExag).segments)

\* C26: for any interleaving of setZExaggeration calls with a running
\* contour generation, once all operations have completed the displayed
\* contour Y coordinates are the ones for the current zExaggeration: the
\* exaggeration recorded as lastZExaggeration is the one the displayed
\* contour geometry was generated or rescaled with
C26_DisplayedAtLastZExaggeration ==
    (/\ InFlight(ops) = {} /\ OnlyIntervalAndZChanges
     /\ overlayLayers.contours # <<>>
     /\ overlayLayers.lastZExaggeration # Null)
        => DisplayedAt(overlayLayers.lastZExaggeration)

\* every call has completed, the exaggeration was set to 2 while a
\* generation was running, lastZExaggeration is 2 and the displayed
\* contours have the heights of the exaggeration 4 of the load
C26_StaleExaggerationShown ==
    /\ InFlight(ops) = {} /\ OnlyIntervalAndZChanges
    /\ \E i, j \in 1..Len(ops) :
          /\ i < j
          /\ ops[i].kind = "setContourInterval" /\ ops[i].genInterval # Null
          /\ ops[j].kind = "setZExaggeration" /\ ops[j].val = 2
    /\ overlayLayers.contours # <<>>
    /\ overlayLayers.lastZExaggeration = 2
    /\ terrainMesh.zExaggeration = 2
    /\ DisplayedAt(DEFAULT_CONFIG.defaultZExaggeration)
    /\ ~DisplayedAt(2)

(***************************************************************************)
(* Properties of the display after a generation                            *)
(***************************************************************************)

\* the generation of call id returns in this step, to the orchestrator
GenerationReturns(id) ==
    /\ ops'[id].state = "finished" /\ ops'[id].genInterval # Null
    /\ ops'[id].kind \in {"setReferenceElevation", "setContourInterval"}
    /\ id > Len(ops) \/ ops[id].state # "finished"

\* the segments it returns: those of the run that was waiting at a yield;
\* a generation that returns in the step that starts it has no threshold
\* or has exceeded the budget, and returns none
ReturnedSegments(id) ==
    IF id <= Len(ops) /\ ops[id].state = "contours"
    THEN GenerateContoursResume(ops[id].gen).result.segments
    ELSE <<>>

\* C27: whenever a contour generation completes without aborting, the
\* displayed contour geometry equals the returned segments; a result with
\* zero vertices removes the contours displayed before
C27_DisplayedIsReturned ==
    [][\A id \in 1..Len(ops') :
          (GenerationReturns(id) /\ orch'.lastContourResult.aborted # "true")
              => overlayLayers'.contours = ReturnedSegments(id)]_vars

\* the only call issued has generated contours and returned no vertex,
\* not aborted, and contours are still displayed
C27_OldContoursKept ==
    /\ Len(ops) = 1
    /\ ops[1].state = "finished" /\ ops[1].genInterval # Null
    /\ orch.lastContourResult.vertexCount = 0
    /\ orch.lastContourResult.aborted # "true"
    /\ overlayLayers.contours # <<>>

(***************************************************************************)
(* Properties of the progress of a load                                    *)
(***************************************************************************)

\* the loads
Loads == {i \in 1..Len(ops) : ops[i].kind = "buildTerrain"}

\* C28: during one terrain load the reported stages are sequential: across
\* all progress callbacks of the load the current stage index never
\* decreases, and the progress shown for a stage is never reset to 0 after
\* that stage has reported progress
C28_StagesSequential ==
    \A i \in Loads :
        \A k, l \in 1..Len(ops[i].val.reports) :
            k < l =>
                /\ ops[i].val.reports[k].stage <= ops[i].val.reports[l].stage
                /\ (/\ ops[i].val.reports[k].stage = ops[i].val.reports[l].stage
                    /\ ops[i].val.reports[k].percent > 0)
                       => ops[i].val.reports[l].percent > 0

\* a colouring chunk reported COMPUTE_COLORS after a filtering chunk had
\* reported FILTER_GEOMETRY
C28_ColorsAfterFilter ==
    \E i \in Loads :
        \E k \in 1..(Len(ops[i].val.reports) - 1) :
            /\ ops[i].val.reports[k].stage = StageIndex("FILTER_GEOMETRY")
            /\ ops[i].val.reports[k].percent > 0
            /\ ops[i].val.reports[k + 1].stage = StageIndex("COMPUTE_COLORS")
            /\ ops[i].val.reports[k + 1].percent > 0

(***************************************************************************)
(* Properties of the threshold loop                                        *)
(***************************************************************************)

\* the calls followed through their threshold loop
ThresholdLoops ==
    {i \in 1..Len(ops) : ops[i].kind = "generateContours" /\ ops[i].genInterval # Null
                         /\ ops[i].gen.state = "idle"}

\* C29: generateContours terminates for every interval a caller can pass,
\* 0 and negative intervals included: the threshold derivation yields a
\* finite threshold list in a bounded number of steps
C29_ThresholdLoopEnds ==
    <>(\A i \in ThresholdLoops : ops[i].state = "finished")

\* with interval 0 the loop has pushed the reference elevation three times
\* or more and its depth is still 0, not beyond maxContourDepth
C29_LoopNotAdvancing ==
    \E i \in ThresholdLoops :
        /\ ops[i].state = "thresholds"
        /\ ops[i].val.interval = 0 /\ ops[i].val.depth = 0
        /\ ops[i].val.depth <= 2 * RoundHalf(ops[i].val.ref - ops[i].val.minElev)
        /\ Len(ops[i].val.thresholds) >= 3
        /\ \A k \in 1..Len(ops[i].val.thresholds) :
              ops[i].val.thresholds[k] = ops[i].val.ref

(***************************************************************************)
(* Properties of the CPU displacement                                      *)
(***************************************************************************)

\* the sample colouring and filtering read for vertex v: at (u, 1 - v)
ColouredElevation(v) ==
    SampleElevation(terrainMesh.elevationData, terrainMesh.noDataValue,
        UvX(v, terrainMesh.gridWidth, terrainMesh.gridHeight)[1],
        UvX(v, terrainMesh.gridWidth, terrainMesh.gridHeight)[2],
        FlipV(UvY(v, terrainMesh.gridWidth, terrainMesh.gridHeight))[1],
        FlipV(UvY(v, terrainMesh.gridWidth, terrainMesh.gridHeight))[2])

\* the sample at the uv of vertex v as stored: at (u, v)
StoredUvElevation(v) ==
    SampleElevation(terrainMesh.elevationData, terrainMesh.noDataValue,
        UvX(v, terrainMesh.gridWidth, terrainMesh.gridHeight)[1],
        UvX(v, terrainMesh.gridWidth, terrainMesh.gridHeight)[2],
        UvY(v, terrainMesh.gridWidth, terrainMesh.gridHeight)[1],
        UvY(v, terrainMesh.gridWidth, terrainMesh.gridHeight)[2])

\* (elevation - referenceElevation) * heightScale in the units of positionsY
DisplacedTo(elevation) ==
    HeightOf(elevation,
             terrainMesh.referenceElevation
                * ((terrainMesh.gridWidth - 1) * (terrainMesh.gridHeight - 1)),
             terrainMesh.zExaggeration)

\* the vertices of the triangles the filter kept
KeptVertices == {terrainMesh.index[k] : k \in 1..Len(terrainMesh.index)}

\* the mesh displaces on the CPU and no call is in flight
FallbackAtRest ==
    /\ ~terrainMesh.useGPUDisplacement
    /\ InFlight(ops) = {}
    /\ DOMAIN terrainMesh.positionsY = DOMAIN terrainMesh.colors

\* C30: in CPU-fallback mode the elevation that displaces a vertex is the
\* sample colouring and filtering use for it (the V-flipped lookup): every
\* vertex kept by the filter has Y = (that elevation - referenceElevation)
\* x heightScale, and a vertex is left at Y = 0 as NoData only if colouring
\* and filtering treat it as NoData too
C30_DisplacedBySameSample ==
    FallbackAtRest =>
        \A v \in DOMAIN terrainMesh.positionsY :
            /\ v \in KeptVertices
                  => terrainMesh.positionsY[v] = DisplacedTo(ColouredElevation(v))
            /\ StoredUvElevation(v) = NaN => ColouredElevation(v) = NaN

\* on the CPU path a kept vertex stands at the height of the sample at
\* its stored uv, which is not the height of the sample it is coloured by
C30_DisplacedByMirroredSample ==
    /\ FallbackAtRest
    /\ \E v \in KeptVertices :
          /\ ColouredElevation(v) # NaN /\ StoredUvElevation(v) # NaN
          /\ terrainMesh.positionsY[v] = DisplacedTo(StoredUvElevation(v))
          /\ terrainMesh.positionsY[v] # DisplacedTo(ColouredElevation(v))

====
